---- MODULE Spec2Model ----
(***************************************************************************)
(* Model of the multi-agent workflow engine of backend/core/graph_engine.py *)
(* (MarketInsightGraphEngine): the graph orchestrator -> four parallel     *)
(* workers -> gather -> debate_peer -> debate_redteam -> synthesizer, the   *)
(* per-node retry / degrade policy, and the event stream the nodes write.   *)
(*                                                                         *)
(* Events of the sequential nodes are kept in `stream` in emission order;   *)
(* the events of each of the four concurrent worker branches are kept in    *)
(* `wlog[a]` in that branch's emission order (the session's event stream is *)
(* an interleaving of the four worker logs between orchestrator_start and   *)
(* gather_complete).                                                        *)
(*                                                                         *)
(* One LLM streaming call (create_response_stream_v2) is a "script": the    *)
(* typed deltas it yields and whether it then raises.  The process-wide     *)
(* throttle only delays a call; it is not part of this specification.       *)
(***************************************************************************)
EXTENDS Integers, Sequences, FiniteSets, Bags, TLC

(***************************************************************************)
(* Bounds of the model.                                                    *)
(***************************************************************************)
\* budget per session for LLM calls whose stream deviates from the plain one
\* (see Deviation)
MaxDeviations == 2
\* requested debate_rounds range over MinRawRounds .. MaxRawRounds
MaxRawRounds == 3
\* requested retry_max_attempts range over 0 .. MaxRawAttempts
MaxRawAttempts == 2
\* requested retry_backoff_ms range over -1 .. MaxRawBackoff
MaxRawBackoff == 0

MinRawRounds == 0 - 1

(***************************************************************************)
(* Program constants.                                                      *)
(***************************************************************************)
TREND_SCOUT == "trend_scout"
COMPETITOR_ANALYST == "competitor_analyst"
REGULATION_CHECKER == "regulation_checker"
SOCIAL_SENTINEL == "social_sentinel"
SYNTHESIZER == "synthesizer"
AGENT_DEBATE_CHALLENGER == "debate_challenger"

WORKER_AGENTS ==
    <<TREND_SCOUT, COMPETITOR_ANALYST, REGULATION_CHECKER, SOCIAL_SENTINEL>>

Workers == {WORKER_AGENTS[i] : i \in 1..Len(WORKER_AGENTS)}

DEBATE_PEER_PAIRS ==
    <<<<TREND_SCOUT, COMPETITOR_ANALYST>>, <<REGULATION_CHECKER, SOCIAL_SENTINEL>>>>

DEBATE_REDTEAM_TARGETS ==
    <<TREND_SCOUT, COMPETITOR_ANALYST, REGULATION_CHECKER, SOCIAL_SENTINEL>>

DegradeModes == {"skip", "partial", "fail"}

(***************************************************************************)
(* Generic helpers.                                                        *)
(***************************************************************************)
Max(a, b) == IF a >= b THEN a ELSE b

Min(a, b) == IF a <= b THEN a ELSE b

Last(s) == s[Len(s)]

RECURSIVE Concat(_)
Concat(ss) == IF ss = <<>> THEN <<>> ELSE Head(ss) \o Concat(Tail(ss))

\* number of entries of s that satisfy P
Count(s, P(_)) == Cardinality({i \in 1..Len(s) : P(s[i])})

(***************************************************************************)
(* LLM stream scripts: what one create_response_stream_v2 call yields.      *)
(***************************************************************************)
PlainScript == [events |-> <<"OUT">>, raises |-> FALSE]
SilentScript == [events |-> <<>>, raises |-> FALSE]
SearchScript == [events |-> <<"SS", "SC", "OUT">>, raises |-> FALSE]
FailScript == [events |-> <<>>, raises |-> TRUE]
CutSearchScript == [events |-> <<"SS">>, raises |-> TRUE]

Scripts == {PlainScript, SilentScript, SearchScript, FailScript, CutSearchScript}

\* what a script takes from the budget MaxDeviations: nothing when plain, 1 when
\* the call raises, 2 when it returns after an empty reply or a search
Deviation(s) == IF s = PlainScript THEN 0 ELSE IF s.raises THEN 1 ELSE 2

\* "".join(content_parts): non-empty iff some output delta was yielded
Joined(s) == IF \E i \in 1..Len(s.events) : s.events[i] = "OUT" THEN "text" ELSE ""

\* the scripts a call can follow: the web_search tool is offered to the model,
\* and search deltas can come back, only when use_websearch is set
ScriptsFor(use_websearch) ==
    IF use_websearch THEN Scripts ELSE {PlainScript, SilentScript, FailScript}

\* AGENT_WEBSEARCH_CONFIG / the agent classes' use_websearch attribute
AgentUseWebsearch(agent) == agent \in Workers

\* the agent's own attribute, whatever the workflow switch says
effective_websearch_agent_default(agent, enable_websearch) == AgentUseWebsearch(agent)

\* lines 716-719 and 1343-1346: the flag handed to create_response_stream_v2
effective_websearch(agent, enable_websearch) ==
    AgentUseWebsearch(agent) /\ enable_websearch

\* BaseAgent.post_process as overridden by the market agents
post_process(content) == IF content = "" THEN "placeholder" ELSE content

VARIABLES
    has_factory,        \* self.agent_factory is set
    cfg,                \* normalised knobs of MarketInsightState
    phase,              \* state["phase"]
    agent_results,      \* state["agent_results"]
    debate_exchanges,   \* state["debate_exchanges"]
    current_debate_round,
    synthesized_report,
    node,               \* the graph node(s) now running
    wpc,                \* per worker branch: idle | run | returned | raised
    wattempt,           \* per worker branch: attempt of the retry loop
    wret,               \* per worker branch: the partial update it returned
    xi,                 \* debate node: index of the next exchange of the round
    xattempt,           \* debate node: attempt of the current exchange
    exchanges,          \* debate node: local list `exchanges`
    spc,                \* synthesizer node: start | loop | finish
    sattempt,           \* synthesizer node: attempt of the retry loop
    sstatus,            \* synthesizer node: synthesizer_status
    raised,             \* an exception is propagating out of the graph
    closed,             \* the generator returned by stream() has finished
    stream,             \* events written by the sequential nodes and stream()
    wlog,               \* events written by each worker branch
    deviations,         \* deviating LLM calls so far
    phaseHist,          \* the values state["phase"] has taken
    \* ToolGuardrail and ToolRegistry (one instance each, shared by all sessions)
    max_estimated_cost_usd,     \* ToolGuardrail.max_estimated_cost_usd, in cost units
    max_error_rate,             \* ToolGuardrail.max_error_rate, as num / den
    min_calls_for_error_rate,   \* ToolGuardrail.min_calls_for_error_rate
    session_stats,              \* ToolGuardrail._session_stats
    disabled_sessions,          \* ToolGuardrail._disabled_sessions
    triggered_sessions,         \* ToolGuardrail._triggered_sessions
    active,                     \* ToolRegistry._active: invocation_id -> session_id
    issued,                     \* invocation ids handed out so far
    threads,                    \* per caller thread: its place in end/error_invocation
    tool_events,                \* bag of the events the registry handed to the writers
    tripped,                    \* sessions for which evaluate has returned triggered
    llm_calls,                  \* flags the engine passed to create_response_stream_v2
    \* the process-wide adaptive throttle (module globals of graph_engine)
    adaptive_concurrency_limit, \* _ADAPTIVE_CONCURRENCY_LIMIT
    adaptive_inflight_calls,    \* _ADAPTIVE_INFLIGHT_CALLS
    adaptive_conn_fail_streak,  \* _ADAPTIVE_CONN_FAIL_STREAK
    adaptive_success_streak,    \* _ADAPTIVE_SUCCESS_STREAK
    adaptive_recover_after_ts,  \* _ADAPTIVE_RECOVER_AFTER_TS, in seconds
    now_ts,                     \* time.time(), in seconds
    callers,                    \* per calling thread: its place around an LLM call
    tstream,                    \* adaptive_concurrency events written
    outcome_run,                \* history: kind and length of the latest run of
                                \* recorded outcomes of one kind
    calc,                       \* the latest call of a pure function: its
                                \* arguments and what it returned
    \* SessionEventSink and its DbWriteWorker
    enabled,                    \* SessionEventSink._enabled
    worker,                     \* SessionEventSink._worker is not None
    config,                     \* SessionEventSink.config
    agent_bufs,                 \* SessionEventSink._agent_bufs
    debate_ctx,                 \* SessionEventSink._debate_ctx
    exchange_parts,             \* SessionEventSink._exchange_parts
    q,                          \* DbWriteWorker._q
    stop_set,                   \* DbWriteWorker._stop is set
    pg_closed,                  \* DbWriteWorker._pg has been closed by stop()
    stop_pc,                    \* stop(): idle | join | done
    run_pc,                     \* _run(): none | get | returned
    feed,                       \* where the stream handed to the sink stands
    last_event,                 \* the latest event handed to on_event
    enqueue_calls,              \* the enqueue calls that on_event made
    inserted,                   \* bag of the keys of the inserts asked for
    last_write,                 \* the latest operation _run took to the store
    session_row,                \* the sessions row of the store: the columns written
    overflowed                  \* history: put_nowait has found the queue full

vars ==
    <<has_factory, cfg, phase, agent_results, debate_exchanges,
      current_debate_round, synthesized_report, node, wpc, wattempt, wret,
      xi, xattempt, exchanges, spc, sattempt, sstatus, raised, closed,
      stream, wlog, deviations, phaseHist,
      max_estimated_cost_usd, max_error_rate, min_calls_for_error_rate,
      session_stats, disabled_sessions, triggered_sessions, active, issued,
      threads, tool_events, tripped, llm_calls,
      adaptive_concurrency_limit, adaptive_inflight_calls,
      adaptive_conn_fail_streak, adaptive_success_streak,
      adaptive_recover_after_ts, now_ts, callers, tstream, outcome_run,
      calc, enabled, worker, config, agent_bufs, debate_ctx, exchange_parts,
      q, stop_set, pg_closed, stop_pc, run_pc, feed, last_event, enqueue_calls,
      inserted, last_write, session_row, overflowed>>

stateVars == <<agent_results, debate_exchanges, current_debate_round, synthesized_report>>
workerVars == <<wpc, wattempt, wret, wlog>>
debateVars == <<xi, xattempt, exchanges>>
synthVars == <<spc, sattempt, sstatus>>
inputVars == <<has_factory, cfg>>
sinkVars ==
    <<enabled, worker, config, agent_bufs, debate_ctx, exchange_parts, q,
      stop_set, pg_closed, stop_pc, run_pc, feed, last_event, enqueue_calls, inserted,
      last_write, session_row, overflowed>>
sideVars == <<calc, sinkVars>>
workflowVars ==
    <<phase, phaseHist, stateVars, node, workerVars, debateVars, synthVars,
      raised, closed, stream, deviations>>
guardrailCfg == <<max_estimated_cost_usd, max_error_rate, min_calls_for_error_rate>>
guardrailVars == <<session_stats, disabled_sessions, triggered_sessions, tripped>>
registryVars == <<active, issued, threads, tool_events>>
toolVars == <<guardrailCfg, guardrailVars, registryVars, llm_calls>>
throttleVars ==
    <<adaptive_concurrency_limit, adaptive_inflight_calls,
      adaptive_conn_fail_streak, adaptive_success_streak,
      adaptive_recover_after_ts, now_ts, callers, tstream, outcome_run>>
libVars == <<toolVars, throttleVars>>

(***************************************************************************)
(* _prepare_initial_state and its normalisers.                             *)
(***************************************************************************)
normalize_debate_rounds(value) == Min(Max(value, 0), 2)

resolve_degrade_mode(value) == IF value \in DegradeModes THEN value ELSE "partial"

prepare_initial_state(req) ==
    [debate_rounds |-> normalize_debate_rounds(req.debate_rounds),
     retry_max_attempts |-> Max(1, req.retry_max_attempts),
     retry_backoff_ms |-> Max(0, req.retry_backoff_ms),
     degrade_mode |-> resolve_degrade_mode(req.degrade_mode),
     enable_followup |-> req.enable_followup,
     enable_websearch |-> req.enable_websearch]

Requests ==
    [debate_rounds : MinRawRounds..MaxRawRounds,
     retry_max_attempts : 0..MaxRawAttempts,
     retry_backoff_ms : (0 - 1)..MaxRawBackoff,
     degrade_mode : DegradeModes \cup {"other"},
     enable_followup : BOOLEAN,
     enable_websearch : BOOLEAN]

(***************************************************************************)
(* ToolGuardrail, ToolRegistry and the adaptive throttle as constructed.   *)
(***************************************************************************)
MaxCeiling == 1         \* bound: the cost ceiling, in cost units
MaxMinCalls == 2        \* bound: the min_calls_for_error_rate handed in
MaxCost == 1            \* bound: the estimated cost of one invocation
MaxInvocations == 2     \* bound: invocations begun
MaxFinishes == 3        \* bound: end_invocation / error_invocation calls

\* session ids the callers use; "" is the one _pop_or_fallback makes up
Sessions == {"s1", "s2"}
FallbackSession == ""
AllSessions == Sessions \cup {FallbackSession}
\* the session the engine of this model runs
EngineSession == "s1"

Threads == {"t1", "t2"}

ErrorRates == {[num |-> 1, den |-> 2]}

\* SessionGuardrailStats()
NoStats == [total_calls |-> 0, error_calls |-> 0, estimated_cost_usd |-> 0]

IdleThread ==
    [pc |-> "idle", session_id |-> FallbackSession, status |-> "completed",
     estimated_cost_usd |-> 0, reason |-> "", stats |-> NoStats]

\* ToolGuardrail.__init__
GuardrailInit(cost, rate, calls) ==
    /\ max_estimated_cost_usd = cost
    /\ max_error_rate = rate
    /\ min_calls_for_error_rate = Max(1, calls)
    /\ session_stats = [s \in AllSessions |-> NoStats]
    /\ disabled_sessions = {}
    /\ triggered_sessions = {}
    /\ tripped = {}

\* the row _seed_session_row_if_needed has written (PgClient.create_session)
SeededRow == [status |-> "running", phase |-> "init"]

\* SessionEventSink.__init__: with a configured store the worker is started
\* and the session row queued; the stream has not begun
SinkInit(enableds, followups) ==
    /\ enabled \in enableds
    /\ worker = enabled
    /\ config \in [enable_followup : followups]
    /\ agent_bufs = <<>>
    /\ debate_ctx = [current_round |-> 0, current_debate_type |-> "none"]
    /\ exchange_parts = <<>>
    /\ q = IF enabled THEN <<[kind |-> "create_session", args |-> <<>>]>> ELSE <<>>
    /\ stop_set = FALSE
    /\ pg_closed = FALSE
    /\ stop_pc = "idle"
    /\ run_pc = IF enabled THEN "get" ELSE "none"
    /\ feed = [stage |-> "agent_idle", xi |-> 0, attempt |-> 1, chunks |-> 0,
               exchange_record |-> "none"]
    /\ last_event = [event |-> "", agent |-> "", round_number |-> 0,
                     from_agent |-> "", to_agent |-> "", content |-> <<>>,
                     attempt |-> 0, status |-> ""]
    /\ enqueue_calls = <<>>
    /\ inserted = EmptyBag
    /\ last_write = [written |-> FALSE, ok |-> TRUE, after_close |-> FALSE]
    /\ session_row = SeededRow
    /\ overflowed = FALSE

\* no pure function has been called
NoCalc == [fn |-> "none"]

\* no pure function called, and a sink without a configured store
SideInit == calc = NoCalc /\ SinkInit({FALSE}, {TRUE})

\* ToolRegistry.__init__
RegistryInit ==
    /\ active = {}
    /\ issued = 0
    /\ threads = [t \in Threads |-> IdleThread]
    /\ tool_events = EmptyBag
    /\ llm_calls = {}

ADAPTIVE_DEFAULT_LIMIT == 4
ADAPTIVE_REDUCED_LIMIT == 2
ADAPTIVE_FAIL_THRESHOLD == 4
ADAPTIVE_RECOVERY_SUCCESS_STREAK == 6
ADAPTIVE_REDUCED_WINDOW_SEC == 120

\* threads of one session's process that make LLM calls: a worker branch and
\* two threads running _execute_agent_call or the synthesizer
WorkerCallers == {"worker"}
Callers == WorkerCallers \cup {"call1", "call2"}

IdleCaller == [pc |-> "idle", success |-> TRUE, error |-> <<>>]

\* the module globals as first assigned, lines 62-66, and the calling threads
ThrottleInitFor(calling) ==
    /\ adaptive_concurrency_limit = ADAPTIVE_DEFAULT_LIMIT
    /\ adaptive_inflight_calls = 0
    /\ adaptive_conn_fail_streak = 0
    /\ adaptive_success_streak = 0
    /\ adaptive_recover_after_ts = 0
    /\ now_ts = 0
    /\ callers = [c \in calling |-> IdleCaller]
    /\ tstream = <<>>
    /\ outcome_run = [kind |-> "none", len |-> 0]

ThrottleInit == ThrottleInitFor(Callers)

\* the engine constructed and stream() called with one of these requests
WorkflowInit(factories, requests) ==
    /\ has_factory \in factories
    /\ \E initial_state \in requests : cfg = prepare_initial_state(initial_state)
    /\ phase = "init"
    /\ agent_results = <<>>
    /\ debate_exchanges = <<>>
    /\ current_debate_round = 0
    /\ synthesized_report = "none"
    /\ node = "orchestrator"
    /\ wpc = [a \in Workers |-> "idle"]
    /\ wattempt = [a \in Workers |-> 0]
    /\ wret = [a \in Workers |-> <<>>]
    /\ xi = 0
    /\ xattempt = 0
    /\ exchanges = <<>>
    /\ spc = "start"
    /\ sattempt = 0
    /\ sstatus = "completed"
    /\ raised = FALSE
    /\ closed = FALSE
    /\ stream = <<>>
    /\ wlog = [a \in Workers |-> <<>>]
    /\ deviations = 0
    /\ phaseHist = <<"init">>

Init ==
    /\ WorkflowInit(BOOLEAN, Requests)
    /\ GuardrailInit(MaxCeiling, [num |-> 1, den |-> 2], 1)
    /\ RegistryInit
    /\ SideInit
    /\ ThrottleInit

(***************************************************************************)
(* _compute_backoff_ms.                                                    *)
(***************************************************************************)
\* sum(name.encode("utf-8")) for the agent names
NameSum(agent) ==
    CASE agent = TREND_SCOUT -> 1194
      [] agent = COMPETITOR_ANALYST -> 1953
      [] agent = REGULATION_CHECKER -> 1902
      [] agent = SOCIAL_SENTINEL -> 1596
      [] agent = SYNTHESIZER -> 1224
      [] agent = AGENT_DEBATE_CHALLENGER -> 1753

\* the byte sum of f"r{round_number}:{challenger}->{responder}"
ExchangeIdSum(r, c, resp) == 114 + (48 + r) + 58 + NameSum(c) + 45 + 62 + NameSum(resp)

\* sum(f"{jitter_key}:{attempt}".encode("utf-8")) % 41, for attempt < 10
jitter_bucket(key_sum, attempt) == (key_sum + 58 + 48 + attempt) % 41

\* int(base_ms * (jitter_bucket / 100)) in double arithmetic: the exact
\* quotient, except where the double product falls just below the integer
\* (the pairs listed are all of them for base_ms up to 1000)
jitter_ms(base_ms, bucket) ==
    (base_ms * bucket) \div 100
    - (IF \/ bucket = 29 /\ base_ms \in {100, 200, 400, 800}
          \/ bucket = 35 /\ base_ms \in {180, 340, 360, 660, 680, 700, 720}
       THEN 1 ELSE 0)

\* the delay is never short-cut to zero: one millisecond at least
compute_backoff_ms_positive(base_ms, attempt, key_sum) ==
    Max(base_ms, 1) * (2 ^ Max(0, attempt - 1))

\* the jitter share is taken of the whole exponential term
compute_backoff_ms_scaled(base_ms, attempt, key_sum) ==
    IF base_ms <= 0
    THEN 0
    ELSE base_ms * (2 ^ Max(0, attempt - 1))
         + (base_ms * (2 ^ Max(0, attempt - 1)) * jitter_bucket(key_sum, attempt)) \div 100

compute_backoff_ms(base_ms, attempt, key_sum) ==
    IF base_ms <= 0
    THEN 0
    ELSE base_ms * (2 ^ Max(0, attempt - 1))
         + jitter_ms(base_ms, jitter_bucket(key_sum, attempt))

\* a node's returned {"phase": p} merged into the state
SetPhase(p) ==
    /\ phase' = p
    /\ phaseHist' = IF p = phase THEN phaseHist ELSE Append(phaseHist, p)

Running == ~raised /\ ~closed

(***************************************************************************)
(* _orchestrator_node and _dispatch_to_workers.                            *)
(***************************************************************************)
orchestrator_node ==
    /\ Running
    /\ node = "orchestrator"
    /\ stream' = Append(stream, [event |-> "orchestrator_start",
                                 debate_rounds |-> cfg.debate_rounds])
    /\ SetPhase("gather")
    /\ node' = "workers"
    /\ UNCHANGED <<inputVars, sideVars, libVars, stateVars, workerVars, debateVars, synthVars,
                   raised, closed, deviations>>

(***************************************************************************)
(* _create_agent_node: one worker branch.                                  *)
(***************************************************************************)
\* the events the worker's loop over the LLM stream writes for one delta
WorkerDeltaEvent(a, d) ==
    CASE d = "OUT" -> [event |-> "agent_chunk", agent |-> a]
      [] d = "SS" -> [event |-> "tool_start", agent |-> a, tool |-> "web_search"]
      [] d = "SC" -> [event |-> "tool_end", agent |-> a, tool |-> "web_search"]

WorkerStreamEvents(a, s) ==
    [i \in 1..Len(s.events) |-> WorkerDeltaEvent(a, s.events[i])]

AgentResult(a, content, error) ==
    [agent_name |-> a, content |-> content, error |-> error]

\* lines 683-706: agent_start, then the stagger sleep
agent_start(a) ==
    /\ ~closed
    /\ node = "workers"
    /\ wpc[a] = "idle"
    /\ wpc' = [wpc EXCEPT ![a] = "run"]
    /\ wattempt' = [wattempt EXCEPT ![a] = 1]
    /\ wlog' = [wlog EXCEPT ![a] = Append(@, [event |-> "agent_start", agent |-> a])]
    /\ UNCHANGED <<inputVars, sideVars, libVars, phase, phaseHist, stateVars, node, wret, debateVars,
                   synthVars, raised, closed, stream, deviations>>

\* lines 826-848: the attempt succeeded
AgentSucceeds(a, written, content) ==
    /\ wlog' = [wlog EXCEPT ![a] =
                  @ \o written \o
                  <<[event |-> "agent_end", agent |-> a, status |-> "completed",
                     attempt |-> wattempt[a]]>>]
    /\ wret' = [wret EXCEPT ![a] = <<AgentResult(a, content, "none")>>]
    /\ wpc' = [wpc EXCEPT ![a] = "returned"]
    /\ UNCHANGED <<wattempt, raised>>

\* the retry event announces the attempt to come instead of the failed one
AgentRetriesMiscounted(a, written) ==
    /\ wlog' = [wlog EXCEPT ![a] =
                  @ \o written \o
                  <<[event |-> "retry", target_type |-> "agent", target_id |-> a,
                     attempt |-> wattempt[a] + 1,
                     max_attempts |-> cfg.retry_max_attempts,
                     backoff_ms |-> compute_backoff_ms(cfg.retry_backoff_ms,
                                                       wattempt[a], NameSum(a))]>>]
    /\ wattempt' = [wattempt EXCEPT ![a] = @ + 1]
    /\ UNCHANGED <<wpc, wret, raised>>

\* lines 855-869: attempts remain
AgentRetries(a, written) ==
    /\ wlog' = [wlog EXCEPT ![a] =
                  @ \o written \o
                  <<[event |-> "retry", target_type |-> "agent", target_id |-> a,
                     attempt |-> wattempt[a],
                     max_attempts |-> cfg.retry_max_attempts,
                     backoff_ms |-> compute_backoff_ms(cfg.retry_backoff_ms,
                                                       wattempt[a], NameSum(a))]>>]
    /\ wattempt' = [wattempt EXCEPT ![a] = @ + 1]
    /\ UNCHANGED <<wpc, wret, raised>>

\* the exhausted worker reports its error twice
AgentDegradeEventsTwice(a, mode) ==
    <<[event |-> "agent_error", agent |-> a, attempt |-> wattempt[a],
       degrade_mode |-> mode],
      [event |-> "agent_error", agent |-> a, attempt |-> wattempt[a],
       degrade_mode |-> mode]>>

\* lines 871-915: the last attempt failed; what the degrade mode makes of it
AgentDegradeEvents(a, mode) ==
    <<[event |-> "agent_error", agent |-> a, attempt |-> wattempt[a],
       degrade_mode |-> mode]>>
    \o (IF mode = "skip"
        THEN <<[event |-> "agent_end", agent |-> a, status |-> "skipped",
                attempt |-> wattempt[a]]>>
        ELSE <<>>)

\* partial mode returns nothing, as skip mode does
AgentDegradeReturnsNothing(a, mode) == <<>>

AgentDegradeReturn(a, mode) ==
    IF mode = "partial" THEN <<AgentResult(a, "", "error")>> ELSE <<>>

\* the degrade mode is not consulted: exhaustion always re-raises
AgentExhaustedAlwaysRaises(a, written) ==
    /\ wlog' = [wlog EXCEPT ![a] = @ \o written \o AgentDegradeEvents(a, "fail")]
    /\ wpc' = [wpc EXCEPT ![a] = "raised"]
    /\ raised' = TRUE
    /\ UNCHANGED <<wret, wattempt>>

AgentExhausted(a, written) ==
    /\ wlog' = [wlog EXCEPT ![a] = @ \o written \o AgentDegradeEvents(a, cfg.degrade_mode)]
    /\ IF cfg.degrade_mode = "fail"
       THEN /\ wpc' = [wpc EXCEPT ![a] = "raised"]
            /\ raised' = TRUE
            /\ UNCHANGED wret
       ELSE /\ wpc' = [wpc EXCEPT ![a] = "returned"]
            /\ wret' = [wret EXCEPT ![a] = AgentDegradeReturn(a, cfg.degrade_mode)]
            /\ UNCHANGED raised
    /\ UNCHANGED wattempt

\* lines 708-915: one iteration of the retry loop
agent_attempt(a) ==
    /\ ~closed
    /\ node = "workers"
    /\ wpc[a] = "run"
    /\ IF has_factory
       THEN \E s \in ScriptsFor(effective_websearch(a, cfg.enable_websearch)) :
              /\ deviations + Deviation(s) <= MaxDeviations
              /\ deviations' = deviations + Deviation(s)
              /\ IF ~s.raises
                 THEN AgentSucceeds(a, WorkerStreamEvents(a, s), post_process(Joined(s)))
                 ELSE IF wattempt[a] < cfg.retry_max_attempts
                      THEN AgentRetries(a, WorkerStreamEvents(a, s))
                      ELSE AgentExhausted(a, WorkerStreamEvents(a, s))
       ELSE /\ AgentSucceeds(a, <<>>, "simulated")
            /\ UNCHANGED deviations
    /\ UNCHANGED <<inputVars, sideVars, libVars, phase, phaseHist, stateVars, node, debateVars,
                   synthVars, closed, stream>>

(***************************************************************************)
(* The barrier and _gather_node.                                           *)
(***************************************************************************)
route_after_gather(rounds) ==
    IF normalize_debate_rounds(rounds) <= 0 THEN "synthesizer" ELSE "debate_peer"

\* the peer round always hands over to the red-team round
AlwaysRedteamAfterPeer(rounds) == "debate_redteam"

route_after_peer_debate(rounds) ==
    IF normalize_debate_rounds(rounds) <= 1 THEN "synthesizer" ELSE "debate_redteam"

\* no reducer on the key: the update of the last branch replaces the others
MergedResultsLastWins == wret[WORKER_AGENTS[Len(WORKER_AGENTS)]]

\* operator.add over the branches' updates, in dispatch order
MergedResults == Concat([i \in 1..Len(WORKER_AGENTS) |-> wret[WORKER_AGENTS[i]]])

\* the barrier hands every session to the peer round
GatherPhaseAlwaysPeer(rounds) == "debate_peer"

GatherPhase(rounds) ==
    IF normalize_debate_rounds(rounds) <= 0 THEN "synthesize" ELSE "debate_peer"

\* the barrier opens as soon as one branch has joined
SomeBranchJoined == \E a \in Workers : wpc[a] = "returned"

\* the edges from the four workers into gather: all branches have joined
BranchesJoined == \A a \in Workers : wpc[a] = "returned"

gather_node ==
    /\ Running
    /\ node = "workers"
    /\ BranchesJoined
    /\ agent_results' = agent_results \o MergedResults
    /\ stream' = Append(stream,
                   [event |-> "gather_complete",
                    completed_agents |-> [i \in 1..Len(agent_results') |->
                                            agent_results'[i].agent_name],
                    total_results |-> Len(agent_results')])
    /\ SetPhase(GatherPhase(cfg.debate_rounds))
    /\ node' = route_after_gather(cfg.debate_rounds)
    /\ UNCHANGED <<inputVars, sideVars, libVars, debate_exchanges, current_debate_round,
                   synthesized_report, workerVars, debateVars, synthVars,
                   raised, closed, deviations>>

(***************************************************************************)
(* _debate_peer_node, _debate_redteam_node and _execute_debate_exchange.    *)
(***************************************************************************)
\* the (challenger, responder) pairs of a round, in the order the node runs them
PeerExchanges ==
    Concat([p \in 1..Len(DEBATE_PEER_PAIRS) |->
              <<<<DEBATE_PEER_PAIRS[p][1], DEBATE_PEER_PAIRS[p][2]>>,
                <<DEBATE_PEER_PAIRS[p][2], DEBATE_PEER_PAIRS[p][1]>>>>])

RedteamExchanges ==
    [i \in 1..Len(DEBATE_REDTEAM_TARGETS) |->
       <<AGENT_DEBATE_CHALLENGER, DEBATE_REDTEAM_TARGETS[i]>>]

RoundExchanges(r) == IF r = 1 THEN PeerExchanges ELSE RedteamExchanges

DebateType(r) == IF r = 1 THEN "peer_review" ELSE "red_team"

DebateNodes == {"debate_peer", "debate_redteam"}

DebateRound == IF node = "debate_peer" THEN 1 ELSE 2

\* results_map.get(responder).content, "" when there is no such result
ResponderContent(results, responder) ==
    LET hits == SelectSeq(results, LAMBDA r : r.agent_name = responder)
    IN  IF hits = <<>> THEN "" ELSE Last(hits).content

\* the revised heuristic: a revision marker occurs in the response
HasRevisionMarker(content) == content = "text with revision marker"

DebateExchange(r, c, resp, challenge, response, followup, revised) ==
    [round_number |-> r, debate_type |-> DebateType(r), challenger |-> c,
     responder |-> resp, challenge_content |-> challenge,
     response_content |-> response, followup_content |-> followup,
     revised |-> revised]

\* _execute_agent_call with emit_chunks = False: the events one sub-call writes
CallEvents(agent, prefix, s) ==
    LET tools == SelectSeq(s.events, LAMBDA d : d \in {"SS", "SC"})
    IN  [i \in 1..Len(tools) |->
           [event |-> IF tools[i] = "SS" THEN "tool_start" ELSE "tool_end",
            agent |-> agent, tool |-> "web_search", context |-> prefix]]

\* emit_chunks is False for debate calls, so an empty reply writes what a plain
\* one writes: only replies that raise or search are told apart here
CallScripts(agent) ==
    ScriptsFor(effective_websearch(agent, cfg.enable_websearch)) \ {SilentScript}

ExchangeEvent(name, r, from, to, att) ==
    [event |-> name, round_number |-> r, from_agent |-> from, to_agent |-> to,
     attempt |-> att]

\* the respond step is announced before the challenge has ended
ExchangeAttemptEventsUnordered(r, c, resp, att, followup, s1, s2, s3) ==
    <<ExchangeEvent("agent_challenge", r, c, resp, att),
      ExchangeEvent("agent_respond", r, resp, c, att),
      ExchangeEvent("agent_challenge_end", r, c, resp, att),
      ExchangeEvent("agent_respond_end", r, resp, c, att)>>

\* lines 1114-1259: what one attempt writes when its calls follow s1, s2, s3
ExchangeAttemptEvents(r, c, resp, att, followup, s1, s2, s3) ==
    <<ExchangeEvent("agent_challenge", r, c, resp, att)>>
    \o CallEvents(c, "challenge", s1)
    \o (IF s1.raises THEN <<>> ELSE
        <<ExchangeEvent("agent_challenge_end", r, c, resp, att),
          ExchangeEvent("agent_respond", r, resp, c, att)>>
        \o CallEvents(resp, "respond", s2)
        \o (IF s2.raises THEN <<>> ELSE
            <<ExchangeEvent("agent_respond_end", r, resp, c, att)>>
            \o (IF ~followup THEN <<>> ELSE
                <<ExchangeEvent("agent_followup", r, c, resp, att)>>
                \o CallEvents(c, "followup", s3)
                \o (IF s3.raises THEN <<>> ELSE
                    <<ExchangeEvent("agent_followup_end", r, c, resp, att)>>))))

ExchangeAttemptFails(followup, s1, s2, s3) ==
    s1.raises \/ s2.raises \/ (followup /\ s3.raises)

\* the calls an attempt makes: none after the one that raises
ExchangeScripts(c, resp, followup) ==
    {t \in CallScripts(c) \X CallScripts(resp) \X CallScripts(c) :
        /\ t[1].raises => t[2] = PlainScript
        /\ (t[1].raises \/ t[2].raises \/ ~followup) => t[3] = PlainScript}

ExchangeId(r, c, resp) == <<r, c, resp>>

\* skip mode appends the synthetic record as partial mode does
ExchangeDegradeAlwaysAppends(r, c, resp, mode) ==
    <<DebateExchange(r, c, resp, "", "", "degraded: exchange failed", FALSE)>>

\* an exhausted exchange is dropped in partial mode too
ExchangeDegradeDrops(r, c, resp, mode) == <<>>

\* lines 1272-1305: the last attempt failed
ExchangeDegradeReturn(r, c, resp, mode) ==
    IF mode = "partial"
    THEN <<DebateExchange(r, c, resp, "", "", "degraded: exchange failed", FALSE)>>
    ELSE <<>>

debate_round_start ==
    /\ Running
    /\ node \in DebateNodes
    /\ xi = 0
    /\ stream' = Append(stream, [event |-> "debate_round_start",
                                 round_number |-> DebateRound,
                                 debate_type |-> DebateType(DebateRound)])
    /\ exchanges' = <<>>
    /\ xi' = 1
    /\ xattempt' = 1
    /\ UNCHANGED <<inputVars, sideVars, libVars, phase, phaseHist, stateVars, node, workerVars,
                   synthVars, raised, closed, deviations>>

\* the exchange returned `ret` (a list of zero or one DebateExchange)
ExchangeReturns(ret) ==
    /\ exchanges' = exchanges \o ret
    /\ xi' = xi + 1
    /\ xattempt' = 1
    /\ UNCHANGED raised

execute_debate_exchange ==
    /\ Running
    /\ node \in DebateNodes
    /\ xi \in 1..Len(RoundExchanges(DebateRound))
    /\ LET r == DebateRound
           c == RoundExchanges(r)[xi][1]
           resp == RoundExchanges(r)[xi][2]
       IN  IF ~has_factory
           THEN /\ ExchangeReturns(
                     <<DebateExchange(r, c, resp, "placeholder", "placeholder",
                         IF cfg.enable_followup THEN "placeholder" ELSE "none",
                         FALSE)>>)
                /\ UNCHANGED <<stream, deviations>>
           ELSE IF ResponderContent(agent_results, resp) = ""
           THEN /\ ExchangeReturns(<<>>)
                /\ UNCHANGED <<stream, deviations>>
           ELSE \E t \in ExchangeScripts(c, resp, cfg.enable_followup) :
                  LET cost == Deviation(t[1]) + Deviation(t[2]) + Deviation(t[3])
                      written == ExchangeAttemptEvents(r, c, resp, xattempt,
                                    cfg.enable_followup, t[1], t[2], t[3])
                  IN  /\ deviations + cost <= MaxDeviations
                      /\ deviations' = deviations + cost
                      /\ IF ~ExchangeAttemptFails(cfg.enable_followup, t[1], t[2], t[3])
                         THEN /\ stream' = stream \o written
                              /\ ExchangeReturns(
                                   <<DebateExchange(r, c, resp, Joined(t[1]), Joined(t[2]),
                                       IF cfg.enable_followup THEN Joined(t[3]) ELSE "none",
                                       HasRevisionMarker(Joined(t[2])))>>)
                         ELSE IF xattempt < cfg.retry_max_attempts
                         THEN /\ stream' = stream \o written \o
                                   <<[event |-> "retry", target_type |-> "debate_exchange",
                                      target_id |-> ExchangeId(r, c, resp),
                                      attempt |-> xattempt,
                                      max_attempts |-> cfg.retry_max_attempts,
                                      backoff_ms |->
                                        compute_backoff_ms(cfg.retry_backoff_ms,
                                          xattempt, ExchangeIdSum(r, c, resp))]>>
                              /\ xattempt' = xattempt + 1
                              /\ UNCHANGED <<xi, exchanges, raised>>
                         ELSE IF cfg.degrade_mode = "fail"
                         THEN /\ stream' = stream \o written
                              /\ raised' = TRUE
                              /\ UNCHANGED <<xi, xattempt, exchanges>>
                         ELSE /\ stream' = stream \o written
                              /\ ExchangeReturns(
                                   ExchangeDegradeReturn(r, c, resp, cfg.degrade_mode))
    /\ UNCHANGED <<inputVars, sideVars, libVars, phase, phaseHist, stateVars, node, workerVars,
                   synthVars, closed>>

DebatePhase(r, rounds) ==
    IF r = 1 /\ normalize_debate_rounds(rounds) > 1 THEN "debate_redteam" ELSE "synthesize"

DebateNext(r, rounds) ==
    IF r = 1 THEN route_after_peer_debate(rounds) ELSE "synthesizer"

debate_round_end ==
    /\ Running
    /\ node \in DebateNodes
    /\ xi = Len(RoundExchanges(DebateRound)) + 1
    /\ stream' = Append(stream, [event |-> "debate_round_end",
                                 round_number |-> DebateRound,
                                 debate_type |-> DebateType(DebateRound),
                                 exchanges_count |-> Len(exchanges)])
    /\ debate_exchanges' = debate_exchanges \o exchanges
    /\ current_debate_round' = DebateRound
    /\ SetPhase(DebatePhase(DebateRound, cfg.debate_rounds))
    /\ node' = DebateNext(DebateRound, cfg.debate_rounds)
    /\ xi' = 0
    /\ xattempt' = 0
    /\ exchanges' = <<>>
    /\ UNCHANGED <<inputVars, sideVars, libVars, agent_results, synthesized_report, workerVars,
                   synthVars, raised, closed, deviations>>

(***************************************************************************)
(* _synthesizer_node.                                                      *)
(***************************************************************************)
\* any(r.content for r in results)
has_worker_content(results) == \E i \in 1..Len(results) : results[i].content # ""

\* the fallback report comes out empty
EmptyFallbackReport(results, debates) == ""

\* _generate_fallback_report: always starts with the report heading
generate_fallback_report(results, debates) == "fallback report"

SynthChunks(s) ==
    LET outs == SelectSeq(s.events, LAMBDA d : d = "OUT")
    IN  [i \in 1..Len(outs) |-> [event |-> "agent_chunk", agent |-> SYNTHESIZER]]

SynthErrorEvent ==
    [event |-> "agent_error", agent |-> SYNTHESIZER, degrade_mode |-> cfg.degrade_mode]

\* lines 1623-1714: artifacts, agent_end, orchestrator_end, the final update
SynthFinishes(written, report, status) ==
    /\ stream' = stream \o written \o
                 <<[event |-> "agent_end", agent |-> SYNTHESIZER, status |-> status],
                   [event |-> "orchestrator_end", final_report |-> report]>>
    /\ synthesized_report' = report
    /\ sstatus' = status
    /\ SetPhase("complete")
    /\ node' = "end"
    /\ spc' = "finish"
    /\ UNCHANGED raised

SynthStartEvent == [event |-> "agent_start", agent |-> SYNTHESIZER]

\* lines 1466-1490 and the two branches that make no LLM call (1607-1621)
synthesizer_start ==
    /\ Running
    /\ node = "synthesizer"
    /\ spc = "start"
    /\ IF has_factory /\ has_worker_content(agent_results)
       THEN /\ stream' = Append(stream, SynthStartEvent)
            /\ spc' = "loop"
            /\ sattempt' = 1
            /\ UNCHANGED <<phase, phaseHist, synthesized_report, node, sstatus, raised>>
       ELSE IF has_factory
       THEN /\ SynthFinishes(<<SynthStartEvent, SynthErrorEvent>>,
                             generate_fallback_report(agent_results, debate_exchanges),
                             "degraded")
            /\ UNCHANGED sattempt
       ELSE /\ SynthFinishes(<<SynthStartEvent>>,
                             generate_fallback_report(agent_results, debate_exchanges),
                             "completed")
            /\ UNCHANGED sattempt
    /\ UNCHANGED <<inputVars, sideVars, libVars, agent_results, debate_exchanges, current_debate_round,
                   workerVars, debateVars, closed, deviations>>

\* lines 1491-1606: one iteration of the synthesizer's retry loop
synthesizer_attempt ==
    /\ Running
    /\ node = "synthesizer"
    /\ spc = "loop"
    /\ \E s \in ScriptsFor(FALSE) :
         /\ deviations + Deviation(s) <= MaxDeviations
         /\ deviations' = deviations + Deviation(s)
         /\ IF ~s.raises
            THEN /\ SynthFinishes(SynthChunks(s), post_process(Joined(s)), "completed")
                 /\ UNCHANGED sattempt
            ELSE IF sattempt < cfg.retry_max_attempts
            THEN /\ stream' = stream \o SynthChunks(s) \o
                      <<[event |-> "retry", target_type |-> "agent",
                         target_id |-> SYNTHESIZER, attempt |-> sattempt,
                         max_attempts |-> cfg.retry_max_attempts,
                         backoff_ms |-> compute_backoff_ms(cfg.retry_backoff_ms,
                                                           sattempt, NameSum(SYNTHESIZER))]>>
                 /\ sattempt' = sattempt + 1
                 /\ UNCHANGED <<phase, phaseHist, synthesized_report, node, spc,
                                sstatus, raised>>
            ELSE IF cfg.degrade_mode = "fail"
            THEN /\ stream' = stream \o SynthChunks(s)
                 /\ raised' = TRUE
                 /\ UNCHANGED <<phase, phaseHist, synthesized_report, node, spc,
                                sattempt, sstatus>>
            ELSE /\ SynthFinishes(SynthChunks(s) \o <<SynthErrorEvent>>,
                                  generate_fallback_report(agent_results, debate_exchanges),
                                  "degraded")
                 /\ UNCHANGED sattempt
    /\ UNCHANGED <<inputVars, sideVars, libVars, agent_results, debate_exchanges, current_debate_round,
                   workerVars, debateVars, closed>>

(***************************************************************************)
(* stream(): the generator around the compiled graph.                      *)
(***************************************************************************)
\* the generator swallows the exception and just stops
stream_error_swallowed ==
    /\ raised
    /\ ~closed
    /\ closed' = TRUE
    /\ UNCHANGED <<inputVars, sideVars, libVars, phase, phaseHist, stateVars, node, workerVars,
                   debateVars, synthVars, raised, stream, deviations>>

\* lines 427-433: an exception left the graph
stream_error ==
    /\ raised
    /\ ~closed
    /\ stream' = Append(stream, [event |-> "error"])
    /\ closed' = TRUE
    /\ UNCHANGED <<inputVars, sideVars, libVars, phase, phaseHist, stateVars, node, workerVars,
                   debateVars, synthVars, raised, deviations>>

\* lines 423-426: the graph ran to END
stream_end ==
    /\ Running
    /\ node = "end"
    /\ closed' = TRUE
    /\ UNCHANGED <<inputVars, sideVars, libVars, phase, phaseHist, stateVars, node, workerVars,
                   debateVars, synthVars, raised, stream, deviations>>

Next ==
    \/ orchestrator_node
    \/ \E a \in Workers : agent_start(a)
    \/ \E a \in Workers : agent_attempt(a)
    \/ gather_node
    \/ debate_round_start
    \/ execute_debate_exchange
    \/ debate_round_end
    \/ synthesizer_start
    \/ synthesizer_attempt
    \/ stream_error
    \/ stream_end

Spec == Init /\ [][Next]_vars

\* every thread that can take a step eventually takes one, and every LLM call
\* returns or raises
FairSpec == Spec /\ WF_vars(Next)

(***************************************************************************)
(* ToolRegistry and ToolGuardrail: tools/registry.py, tools/guardrail.py.  *)
(* Callers on several threads begin and finish invocations; every lock-    *)
(* protected section of _apply_guardrail is one step.                      *)
(***************************************************************************)
is_websearch_disabled(session_id) == session_id \in disabled_sessions

should_enable_websearch(session_id, requested) ==
    requested /\ ~ is_websearch_disabled(session_id)

\* SessionGuardrailStats.error_rate > rate, both as exact fractions
error_rate_above(stats, rate) ==
    IF stats.total_calls <= 0
    THEN 0 > rate.num
    ELSE stats.error_calls * rate.den > rate.num * stats.total_calls

cost_hit(stats) == stats.estimated_cost_usd > max_estimated_cost_usd

\* the ceiling itself already counts as exceeded
error_rate_hit_at_ceiling(stats) ==
    /\ stats.total_calls >= min_calls_for_error_rate
    /\ stats.error_calls * max_error_rate.den >= max_error_rate.num * stats.total_calls

error_rate_hit(stats) ==
    /\ stats.total_calls >= min_calls_for_error_rate
    /\ error_rate_above(stats, max_error_rate)

\* ToolRegistry._pop_or_fallback: the session of an active id, "" otherwise
pop_or_fallback(invocation_id) ==
    IF \E r \in active : r.invocation_id = invocation_id
    THEN (CHOOSE r \in active : r.invocation_id = invocation_id).session_id
    ELSE FallbackSession

\* end_invocation / error_invocation calls made so far
Finishes ==
    session_stats["s1"].total_calls + session_stats["s2"].total_calls
    + session_stats[FallbackSession].total_calls
    + Cardinality({t \in Threads : threads[t].pc = "record"})

begin_invocation(s) ==
    /\ issued < MaxInvocations
    /\ issued' = issued + 1
    /\ active' = active \cup {[invocation_id |-> issued + 1, session_id |-> s]}
    /\ tool_events' = tool_events (+) SetToBag({[event |-> "tool_start",
                                                  invocation_id |-> issued + 1]})
    /\ UNCHANGED <<inputVars, sideVars, workflowVars, guardrailCfg, guardrailVars, threads,
                   llm_calls, throttleVars>>

\* end_invocation and error_invocation up to the call of _apply_guardrail
finish_invocation(t, invocation_id, event, status, cost) ==
    /\ threads[t].pc = "idle"
    /\ Finishes < MaxFinishes
    /\ active' = {r \in active : r.invocation_id # invocation_id}
    /\ tool_events' = tool_events (+) SetToBag({[event |-> event,
                                                  invocation_id |-> invocation_id]})
    /\ threads' = [threads EXCEPT ![t] =
                     [IdleThread EXCEPT !.pc = "record",
                                        !.session_id = pop_or_fallback(invocation_id),
                                        !.status = status,
                                        !.estimated_cost_usd = cost]]
    /\ UNCHANGED <<inputVars, sideVars, workflowVars, guardrailCfg, guardrailVars, issued,
                   llm_calls, throttleVars>>

\* the id is one begin_invocation returned, or one it never returned (0)
end_invocation(t) ==
    \E invocation_id \in 0..issued, cost \in 0..MaxCost :
        finish_invocation(t, invocation_id, "tool_end", "completed", cost)

error_invocation(t) ==
    \E invocation_id \in 0..issued, cost \in 0..MaxCost :
        finish_invocation(t, invocation_id, "tool_error", "error", cost)

\* ToolGuardrail.record_invocation
record_invocation(t) ==
    /\ threads[t].pc = "record"
    /\ session_stats' =
          [session_stats EXCEPT ![threads[t].session_id] =
              [total_calls |-> @.total_calls + 1,
               error_calls |-> @.error_calls
                               + (IF threads[t].status \in {"error", "failed"}
                                  THEN 1 ELSE 0),
               estimated_cost_usd |-> @.estimated_cost_usd
                                      + threads[t].estimated_cost_usd]]
    /\ threads' = [threads EXCEPT ![t].pc = "evaluate"]
    /\ UNCHANGED <<inputVars, sideVars, workflowVars, guardrailCfg, disabled_sessions,
                   triggered_sessions, tripped, active, issued, tool_events,
                   llm_calls, throttleVars>>

\* ToolGuardrail.evaluate and the "if not triggered: return None" after it
evaluate(t) ==
    /\ threads[t].pc = "evaluate"
    /\ LET session_id == threads[t].session_id
           stats == session_stats[session_id]
           triggered == cost_hit(stats) \/ error_rate_hit(stats)
           reason == IF ~ triggered THEN ""
                     ELSE IF cost_hit(stats) THEN "estimated_cost_exceeded"
                     ELSE "error_rate_exceeded"
       IN  /\ disabled_sessions' = IF triggered
                                   THEN disabled_sessions \cup {session_id}
                                   ELSE disabled_sessions
           /\ tripped' = IF triggered THEN tripped \cup {session_id} ELSE tripped
           /\ threads' = [threads EXCEPT ![t] =
                            IF triggered
                            THEN [@ EXCEPT !.pc = "mark", !.reason = reason,
                                           !.stats = stats]
                            ELSE IdleThread]
    /\ UNCHANGED <<inputVars, sideVars, workflowVars, guardrailCfg, session_stats,
                   triggered_sessions, active, issued, tool_events, llm_calls,
                   throttleVars>>

\* every caller is told it is the first
mark_triggered_always(t) ==
    /\ threads[t].pc = "mark"
    /\ triggered_sessions' = triggered_sessions \cup {threads[t].session_id}
    /\ threads' = [threads EXCEPT ![t].pc = "write"]
    /\ UNCHANGED <<inputVars, sideVars, workflowVars, guardrailCfg, session_stats,
                   disabled_sessions, tripped, active, issued, tool_events,
                   llm_calls, throttleVars>>

\* ToolGuardrail.mark_triggered and the "return None" after a False
mark_triggered(t) ==
    /\ threads[t].pc = "mark"
    /\ IF threads[t].session_id \in triggered_sessions
       THEN /\ threads' = [threads EXCEPT ![t] = IdleThread]
            /\ UNCHANGED triggered_sessions
       ELSE /\ triggered_sessions' = triggered_sessions \cup {threads[t].session_id}
            /\ threads' = [threads EXCEPT ![t].pc = "write"]
    /\ UNCHANGED <<inputVars, sideVars, workflowVars, guardrailCfg, session_stats,
                   disabled_sessions, tripped, active, issued, tool_events,
                   llm_calls, throttleVars>>

\* the writer(payload) that ends _apply_guardrail
guardrail_triggered(t) ==
    /\ threads[t].pc = "write"
    /\ tool_events' = tool_events (+) SetToBag({[event |-> "guardrail_triggered",
                                                  session_id |-> threads[t].session_id,
                                                  reason |-> threads[t].reason,
                                                  stats |-> threads[t].stats]})
    /\ threads' = [threads EXCEPT ![t] = IdleThread]
    /\ UNCHANGED <<inputVars, sideVars, workflowVars, guardrailCfg, guardrailVars, active,
                   issued, llm_calls, throttleVars>>

\* the agents whose calls are followed: trend_scout is called by its worker
\* node and, as challenger and responder, by _execute_agent_call
CallingAgents == {TREND_SCOUT}

\* the engine, running EngineSession, issues an LLM call of a worker attempt
\* or a debate sub-call; llm_calls keeps the latest
llm_call(agent) ==
    /\ has_factory
    /\ LET call == [agent |-> agent,
                    use_websearch |-> effective_websearch(agent, cfg.enable_websearch),
                    disabled |-> is_websearch_disabled(EngineSession)]
       IN  /\ call \notin llm_calls
           /\ llm_calls' = {call}
    /\ UNCHANGED <<inputVars, sideVars, workflowVars, guardrailCfg, guardrailVars,
                   registryVars, throttleVars>>

\* one session about to start, web search switched on
ToolRequests ==
    {r \in Requests : /\ r.enable_websearch
                      /\ r.debate_rounds = 0
                      /\ r.retry_max_attempts = 1
                      /\ r.retry_backoff_ms = 0
                      /\ r.degrade_mode = "partial"
                      /\ ~ r.enable_followup}

ToolInit ==
    /\ WorkflowInit({TRUE}, ToolRequests)
    /\ \E cost \in 1..MaxCeiling, rate \in ErrorRates, calls \in 0..MaxMinCalls :
          GuardrailInit(cost, rate, calls)
    /\ RegistryInit
    /\ SideInit
    /\ ThrottleInit

ToolNext ==
    \/ \E s \in Sessions : begin_invocation(s)
    \/ \E t \in Threads : end_invocation(t)
    \/ \E t \in Threads : error_invocation(t)
    \/ \E t \in Threads : record_invocation(t)
    \/ \E t \in Threads : evaluate(t)
    \/ \E t \in Threads : mark_triggered(t)
    \/ \E t \in Threads : guardrail_triggered(t)
    \/ \E agent \in CallingAgents : llm_call(agent)

ToolSpec == ToolInit /\ [][ToolNext]_vars

(***************************************************************************)
(* The adaptive throttle: _is_connection_like_error, _acquire_ark_slot,    *)
(* _record_ark_outcome and their call sites.  Texts are sequences of       *)
(* characters.                                                             *)
(***************************************************************************)
TickSec == 60           \* bound: seconds the clock advances in one step
MaxTicks == 3           \* bound: clock steps
MaxEvents == 3          \* bound: adaptive_concurrency events written
MaxStreak == 7          \* bound: the success streak and the failure streak

\* str.lower() on the letters that occur in the texts below
lower_char(c) ==
    CASE c = "C" -> "c" [] c = "R" -> "r" [] c = "T" -> "t" [] c = "O" -> "o"
      [] c = "S" -> "s" [] c = "L" -> "l" [] OTHER -> c

lower(text) == [i \in 1..Len(text) |-> lower_char(text[i])]

\* keyword in text
contains(text, keyword) ==
    \E i \in 0..(Len(text) - Len(keyword)) :
        SubSeq(text, i + 1, i + Len(keyword)) = keyword

ConnectionKeywords ==
    {<<"c", "o", "n", "n", "e", "c", "t", "i", "o", "n", " ", "e", "r", "r", "o", "r">>,
     <<"r", "e", "q", "u", "e", "s", "t", " ", "t", "i", "m", "e", "d", " ", "o", "u", "t">>,
     <<"t", "i", "m", "e", "o", "u", "t">>,
     <<"c", "o", "n", "n", "e", "c", "t">>,
     <<"n", "e", "t", "w", "o", "r", "k">>,
     <<"s", "s", "l">>,
     <<"t", "l", "s">>}

\* str(e) of the exceptions the calls raise: "Request Timed Out",
\* "SSL: bad record", "rate limit" and ""
ErrorTexts ==
    {<<"R", "e", "q", "u", "e", "s", "t", " ", "T", "i", "m", "e", "d", " ", "O", "u", "t">>,
     <<"S", "S", "L", ":", " ", "b", "a", "d", " ", "r", "e", "c", "o", "r", "d">>,
     <<"r", "a", "t", "e", " ", "l", "i", "m", "i", "t">>,
     <<>>}

is_connection_like_error(error) ==
    IF error = <<>>
    THEN FALSE
    ELSE \E keyword \in ConnectionKeywords : contains(lower(error), keyword)

AdaptiveEvent(mode, limit, reason) ==
    [event |-> "adaptive_concurrency", mode |-> mode, concurrency_limit |-> limit,
     reason |-> reason]

\* lines 743-753: a worker that got its slot at a width below the number of
\* workers announces it
SlotEvents(c, slot_limit) ==
    IF c \in WorkerCallers /\ slot_limit < Cardinality(Workers)
    THEN <<[event |-> "adaptive_concurrency", mode |-> "degraded",
            concurrency_limit |-> slot_limit, agent |-> c]>>
    ELSE <<>>

\* a slot is handed out whenever fewer than the default width are in flight
slot_available_at_default == adaptive_inflight_calls < ADAPTIVE_DEFAULT_LIMIT

\* a slot is handed out while the in-flight count does not exceed the width
slot_available_inclusive == adaptive_inflight_calls <= adaptive_concurrency_limit

\* the negation of the wait condition of _acquire_ark_slot, line 571
slot_available == adaptive_inflight_calls < adaptive_concurrency_limit

\* _acquire_ark_slot up to the yield, and the worker's announcement
acquire_ark_slot(c) ==
    /\ callers[c].pc = "idle"
    /\ slot_available
    /\ Len(tstream) + Len(SlotEvents(c, adaptive_concurrency_limit)) <= MaxEvents
    /\ adaptive_inflight_calls' = adaptive_inflight_calls + 1
    /\ tstream' = tstream \o SlotEvents(c, adaptive_concurrency_limit)
    /\ callers' = [callers EXCEPT ![c].pc = "held"]
    /\ UNCHANGED <<inputVars, sideVars, workflowVars, toolVars, adaptive_concurrency_limit,
                   adaptive_conn_fail_streak, adaptive_success_streak,
                   adaptive_recover_after_ts, now_ts, outcome_run>>

\* the slot is given back on a normal return only: an exception leaves the counter as it is
leave_ark_slot_leaks_on_error(c, errors) ==
    /\ callers[c].pc = "held"
    /\ \/ /\ adaptive_inflight_calls' = Max(0, adaptive_inflight_calls - 1)
          /\ callers' = [callers EXCEPT ![c] =
                           [pc |-> "released", success |-> TRUE, error |-> <<>>]]
       \/ /\ adaptive_inflight_calls' = adaptive_inflight_calls
          /\ \E error \in errors :
                callers' = [callers EXCEPT ![c] =
                              [pc |-> "released", success |-> FALSE, error |-> error]]
    /\ UNCHANGED <<inputVars, sideVars, workflowVars, toolVars, adaptive_concurrency_limit,
                   adaptive_conn_fail_streak, adaptive_success_streak,
                   adaptive_recover_after_ts, now_ts, tstream, outcome_run>>

\* the stream ran to its end or raised one of these errors: the finally of
\* _acquire_ark_slot
leave_ark_slot(c, errors) ==
    /\ callers[c].pc = "held"
    /\ adaptive_inflight_calls' = Max(0, adaptive_inflight_calls - 1)
    /\ \/ callers' = [callers EXCEPT ![c] =
                        [pc |-> "released", success |-> TRUE, error |-> <<>>]]
       \/ \E error \in errors :
             callers' = [callers EXCEPT ![c] =
                           [pc |-> "released", success |-> FALSE, error |-> error]]
    /\ UNCHANGED <<inputVars, sideVars, workflowVars, toolVars, adaptive_concurrency_limit,
                   adaptive_conn_fail_streak, adaptive_success_streak,
                   adaptive_recover_after_ts, now_ts, tstream, outcome_run>>

release_ark_slot(c) == leave_ark_slot(c, ErrorTexts)

\* a worker attempt that ends without an LLM call: the simulated output when no
\* agent factory is set, or an exception raised before the slot is asked for
attempt_without_slot(c) ==
    /\ c \in WorkerCallers
    /\ callers[c].pc = "idle"
    /\ \/ callers' = [callers EXCEPT ![c] =
                        [pc |-> "released", success |-> TRUE, error |-> <<>>]]
       \/ \E error \in ErrorTexts :
             callers' = [callers EXCEPT ![c] =
                           [pc |-> "released", success |-> FALSE, error |-> error]]
    /\ UNCHANGED <<inputVars, sideVars, workflowVars, toolVars, adaptive_concurrency_limit,
                   adaptive_inflight_calls, adaptive_conn_fail_streak,
                   adaptive_success_streak, adaptive_recover_after_ts, now_ts,
                   tstream, outcome_run>>

should_recover(success_streak) ==
    /\ adaptive_concurrency_limit = ADAPTIVE_REDUCED_LIMIT
    /\ now_ts >= adaptive_recover_after_ts
    /\ success_streak >= ADAPTIVE_RECOVERY_SUCCESS_STREAK

\* the width is given up at the first connection-like failure
should_reduce_at_once(conn_fail_streak) ==
    adaptive_concurrency_limit = ADAPTIVE_DEFAULT_LIMIT

should_reduce(conn_fail_streak) ==
    /\ adaptive_concurrency_limit = ADAPTIVE_DEFAULT_LIMIT
    /\ conn_fail_streak >= ADAPTIVE_FAIL_THRESHOLD

\* _record_ark_outcome(success=True, ...)
record_success ==
    /\ \/ adaptive_success_streak < MaxStreak
       \/ should_recover(adaptive_success_streak + 1)
    /\ adaptive_conn_fail_streak' = 0
    /\ IF should_recover(adaptive_success_streak + 1)
       THEN /\ Len(tstream) < MaxEvents
            /\ adaptive_concurrency_limit' = ADAPTIVE_DEFAULT_LIMIT
            /\ adaptive_success_streak' = 0
            /\ tstream' = Append(tstream,
                                 AdaptiveEvent("recovered", ADAPTIVE_DEFAULT_LIMIT,
                                               "network_stable"))
       ELSE /\ adaptive_success_streak' = adaptive_success_streak + 1
            /\ UNCHANGED <<adaptive_concurrency_limit, tstream>>
    /\ UNCHANGED adaptive_recover_after_ts

\* a failure that is not connection-like leaves the failure streak as it is
record_other_failure_keeps_streak ==
    /\ adaptive_success_streak' = 0
    /\ UNCHANGED <<adaptive_conn_fail_streak, adaptive_concurrency_limit,
                   adaptive_recover_after_ts, tstream>>

\* _record_ark_outcome(success=False, ...) with an error that is not
\* connection-like
record_other_failure ==
    /\ adaptive_success_streak' = 0
    /\ adaptive_conn_fail_streak' = 0
    /\ UNCHANGED <<adaptive_concurrency_limit, adaptive_recover_after_ts, tstream>>

\* _record_ark_outcome(success=False, ...) with a connection-like error
record_connection_failure(error) ==
    /\ adaptive_conn_fail_streak < MaxStreak
    /\ adaptive_success_streak' = 0
    /\ adaptive_conn_fail_streak' = adaptive_conn_fail_streak + 1
    /\ IF should_reduce(adaptive_conn_fail_streak + 1)
       THEN /\ Len(tstream) < MaxEvents
            /\ adaptive_concurrency_limit' = ADAPTIVE_REDUCED_LIMIT
            /\ adaptive_recover_after_ts' = now_ts + ADAPTIVE_REDUCED_WINDOW_SEC
            /\ tstream' = Append(tstream,
                                 AdaptiveEvent("degraded", ADAPTIVE_REDUCED_LIMIT,
                                               error))
       ELSE UNCHANGED <<adaptive_concurrency_limit, adaptive_recover_after_ts,
                        tstream>>

\* the texts of ErrorTexts that name a connection trouble: "Request Timed Out"
\* and "SSL: bad record"
ConnectionLikeTexts ==
    {<<"R", "e", "q", "u", "e", "s", "t", " ", "T", "i", "m", "e", "d", " ", "O", "u", "t">>,
     <<"S", "S", "L", ":", " ", "b", "a", "d", " ", "r", "e", "c", "o", "r", "d">>}

OutcomeKind(caller) ==
    IF caller.success THEN "success"
    ELSE IF caller.error \in ConnectionLikeTexts THEN "connection"
    ELSE "other"

\* the run of outcomes after one more of that kind
NextRun(kind) ==
    IF outcome_run.kind = kind
    THEN [kind |-> kind, len |-> Min(outcome_run.len + 1, MaxStreak)]
    ELSE [kind |-> kind, len |-> 1]

\* _record_ark_outcome as called after the slot was given back
record_ark_outcome(c) ==
    /\ callers[c].pc = "released"
    /\ outcome_run' = NextRun(OutcomeKind(callers[c]))
    /\ IF callers[c].success
       THEN record_success
       ELSE IF is_connection_like_error(callers[c].error)
            THEN record_connection_failure(callers[c].error)
            ELSE record_other_failure
    /\ callers' = [callers EXCEPT ![c] = IdleCaller]
    /\ UNCHANGED <<inputVars, sideVars, workflowVars, toolVars, adaptive_inflight_calls,
                   now_ts>>

\* time.time() moves on
tick ==
    /\ now_ts < TickSec * MaxTicks
    /\ now_ts' = now_ts + TickSec
    /\ UNCHANGED <<inputVars, sideVars, workflowVars, toolVars, adaptive_concurrency_limit,
                   adaptive_inflight_calls, adaptive_conn_fail_streak,
                   adaptive_success_streak, adaptive_recover_after_ts, callers,
                   tstream, outcome_run>>

ThrottleStart ==
    /\ WorkflowInit({TRUE}, ToolRequests)
    /\ GuardrailInit(MaxCeiling, [num |-> 1, den |-> 2], 1)
    /\ RegistryInit
    /\ SideInit
    /\ ThrottleInit

ThrottleNext ==
    \/ \E c \in Callers : acquire_ark_slot(c)
    \/ \E c \in Callers : release_ark_slot(c)
    \/ \E c \in Callers : attempt_without_slot(c)
    \/ \E c \in Callers : record_ark_outcome(c)
    \/ tick

ThrottleSpec == ThrottleStart /\ [][ThrottleNext]_vars

(***************************************************************************)
(* The throttle under more calling threads than its default width: the     *)
(* worker branch and four threads in _execute_agent_call or the            *)
(* synthesizer, within one reading of the clock; a call that fails raises  *)
(* a connection error.                                                     *)
(***************************************************************************)
SlotCallers == Callers \cup {"call3", "call4"}

\* "Request Timed Out"
SlotErrorTexts ==
    {<<"R", "e", "q", "u", "e", "s", "t", " ", "T", "i", "m", "e", "d", " ", "O", "u", "t">>}

SlotStart ==
    /\ WorkflowInit({TRUE}, ToolRequests)
    /\ GuardrailInit(MaxCeiling, [num |-> 1, den |-> 2], 1)
    /\ RegistryInit
    /\ SideInit
    /\ ThrottleInitFor(SlotCallers)

SlotNext ==
    \/ \E c \in SlotCallers : acquire_ark_slot(c)
    \/ \E c \in SlotCallers : leave_ark_slot(c, SlotErrorTexts)
    \/ \E c \in SlotCallers : record_ark_outcome(c)

SlotSpec == SlotStart /\ [][SlotNext]_vars

\* every LLM stream ends, by its last event or by an exception, and the
\* thread then leaves the with block of _acquire_ark_slot
FairSlotSpec ==
    SlotSpec /\ WF_vars(\E c \in SlotCallers : leave_ark_slot(c, SlotErrorTexts))

(***************************************************************************)
(* The retry branch of the three retry loops on its own: a failed attempt  *)
(* that is not the last computes its delay, reports it in the retry event  *)
(* and sleeps it.  The base delays are values a request may carry (0 to    *)
(* 10000) and the attempts those a request's retry_max_attempts (1 to 5)   *)
(* lets be retried.                                                        *)
(***************************************************************************)
MaxBackoffAttempt == 4

MaxBackoffRound == 2

BackoffBases == {0, 1, 100, 180, 300, 1000}

\* time.sleep(delay_ms / 1000), skipped when the delay is not positive: the
\* milliseconds slept
sleep_backoff(delay_ms) == IF delay_ms <= 0 THEN 0 ELSE delay_ms

retry_backoff(fn, target_id, key_sum, base_ms, attempt) ==
    LET delay_ms == compute_backoff_ms(base_ms, attempt, key_sum)
    IN  /\ calc' = [fn |-> fn, target_id |-> target_id, key_sum |-> key_sum,
                    base_ms |-> base_ms, attempt |-> attempt,
                    backoff_ms |-> delay_ms,
                    slept_ms |-> sleep_backoff(delay_ms)]
        /\ UNCHANGED <<inputVars, sinkVars, workflowVars, toolVars, throttleVars>>

\* the worker's and the synthesizer's retry branch
agent_retry_backoff(agent, base_ms, attempt) ==
    retry_backoff("agent", agent, NameSum(agent), base_ms, attempt)

\* the debate exchange's retry branch
exchange_retry_backoff(r, c, resp, base_ms, attempt) ==
    retry_backoff("debate_exchange", ExchangeId(r, c, resp),
                  ExchangeIdSum(r, c, resp), base_ms, attempt)

BackoffStart ==
    /\ WorkflowInit({TRUE}, ToolRequests)
    /\ GuardrailInit(MaxCeiling, [num |-> 1, den |-> 2], 1)
    /\ RegistryInit
    /\ SideInit
    /\ ThrottleInit

BackoffNext ==
    \/ \E agent \in Workers \cup {SYNTHESIZER}, base_ms \in BackoffBases, attempt \in 1..MaxBackoffAttempt :
          agent_retry_backoff(agent, base_ms, attempt)
    \/ \E r \in 1..MaxBackoffRound, base_ms \in BackoffBases,
          attempt \in 1..MaxBackoffAttempt :
          \E i \in 1..Len(RoundExchanges(r)) :
             exchange_retry_backoff(r, RoundExchanges(r)[i][1], RoundExchanges(r)[i][2],
                                    base_ms, attempt)

BackoffSpec == BackoffStart /\ [][BackoffNext]_vars

(***************************************************************************)
(* SessionEventSink and its DbWriteWorker (database/event_sink.py): the    *)
(* request handler hands every event of the stream to on_event and calls   *)
(* close when the stream is over or the client has gone; the consumer      *)
(* thread _run takes the queued operations to the store.  A text is a      *)
(* sequence of tokens, an optional value a sequence of at most one         *)
(* element (<<>> is None).                                                 *)
(***************************************************************************)
\* queue.Queue(maxsize=2000), scaled down
QueueMaxsize == 2

\* chunk events a worker sends between agent_start and agent_end
MaxChunks == 2

\* the exchanges of the peer round the stream goes through
MaxSinkExchanges == 1

\* retry_max_attempts of the session
MaxSinkAttempts == 2

\* every chunk event but agent_thinking
CHUNK_EVENTS_but_thinking ==
    {"agent_chunk", "challenge_chunk", "respond_chunk", "followup_chunk"}

CHUNK_EVENTS ==
    {"agent_chunk", "agent_thinking", "challenge_chunk", "respond_chunk",
     "followup_chunk"}

None == <<>>

Some(value) == <<value>>

Token(part, xi_, attempt) == [part |-> part, xi |-> xi_, attempt |-> attempt]

Event(name, agent, rn, from, to, content, attempt) ==
    [event |-> name, agent |-> agent, round_number |-> rn, from_agent |-> from,
     to_agent |-> to, content |-> content, attempt |-> attempt, status |-> ""]

NoEvent == Event("", "", 0, "", "", None, 0)

Op(kind, args) == [kind |-> kind, args |-> args]

StopOp == Op("__stop__", <<>>)

\* "".join(parts)
Join(parts) == Concat(parts)

(***************************************************************************)
(* The events of a stream, in the order the engine writes them: one        *)
(* worker's agent_start, chunks and agent_end, the peer round's            *)
(* debate_round_start, then exchange after exchange, an attempt failing    *)
(* at any of its calls (a retry event and the next attempt, or nothing     *)
(* and the next exchange once the attempts are used up).  The engine runs  *)
(* the debate calls with emit_chunks=False, so writes no debate chunks.    *)
(***************************************************************************)
Feed(stage, xi_, attempt, chunks) ==
    [stage |-> stage, xi |-> xi_, attempt |-> attempt, chunks |-> chunks,
     exchange_record |-> "none"]

SinkChallenger(xi_) == PeerExchanges[xi_][1]

SinkResponder(xi_) == PeerExchanges[xi_][2]

ExchangeOpening(xi_, attempt) ==
    IF xi_ > MaxSinkExchanges
    THEN <<Event("debate_round_end", "", 1, "", "", None, 0),
           Feed("finished", xi_, 1, 0)>>
    ELSE <<Event("agent_challenge", "", 1, SinkChallenger(xi_), SinkResponder(xi_),
                 None, attempt),
           Feed("challenge", xi_, attempt, 0)>>

ExchangeCallFails(f) ==
    IF f.attempt < MaxSinkAttempts
    THEN <<Event("retry", "", 0, "", "", None, f.attempt),
           Feed("exchange", f.xi, f.attempt + 1, 0)>>
    ELSE ExchangeOpening(f.xi + 1, 1)

ExchangeCallEnds(f, followup) ==
    LET c == SinkChallenger(f.xi)
        r == SinkResponder(f.xi)
        text == Some(<<Token(f.stage, f.xi, f.attempt)>>)
    IN  CASE f.stage = "challenge" ->
               <<Event("agent_challenge_end", "", 1, c, r, text, f.attempt),
                 Feed("challenged", f.xi, f.attempt, 0)>>
          [] f.stage = "respond" ->
               <<Event("agent_respond_end", "", 1, r, c, text, f.attempt),
                 IF followup THEN Feed("responded", f.xi, f.attempt, 0)
                             ELSE Feed("exchange", f.xi + 1, 1, 0)>>
          [] f.stage = "followup" ->
               <<Event("agent_followup_end", "", 1, c, r, text, f.attempt),
                 Feed("exchange", f.xi + 1, 1, 0)>>

NextEvents(f, followup) ==
    CASE f.stage = "agent_idle" ->
           {<<Event("agent_start", TREND_SCOUT, 0, "", "", None, 1),
              Feed("agent_run", 0, 1, 0)>>}
      [] f.stage = "agent_run" ->
           {<<Event(name, TREND_SCOUT, 0, "", "",
                    Some(<<Token(name, 0, f.chunks + 1)>>), 1),
              Feed("agent_run", 0, 1, f.chunks + 1)>> :
              name \in IF f.chunks < MaxChunks
                       THEN {"agent_chunk", "agent_thinking"} ELSE {}}
           \cup {<<Event("agent_end", TREND_SCOUT, 0, "", "", None, 1),
                   Feed("round", 0, 1, 0)>>}
      [] f.stage = "round" ->
           {<<Event("debate_round_start", "", 1, "", "", None, 0),
              Feed("exchange", 1, 1, 0)>>}
      [] f.stage = "exchange" -> {ExchangeOpening(f.xi, f.attempt)}
      [] f.stage \in {"challenge", "respond", "followup"} ->
           {ExchangeCallEnds(f, followup), ExchangeCallFails(f)}
      [] f.stage = "challenged" ->
           {<<Event("agent_respond", "", 1, SinkResponder(f.xi), SinkChallenger(f.xi),
                    None, f.attempt),
              Feed("respond", f.xi, f.attempt, 0)>>}
      [] f.stage = "responded" ->
           {<<Event("agent_followup", "", 1, SinkChallenger(f.xi), SinkResponder(f.xi),
                    None, f.attempt),
              Feed("followup", f.xi, f.attempt, 0)>>}
      [] OTHER -> {}

(***************************************************************************)
(* DbWriteWorker.enqueue and SessionEventSink.on_event.                    *)
(***************************************************************************)
\* put_nowait on a queue with room for any number of operations
enqueue_unbounded(queue, op) == IF stop_set THEN queue ELSE Append(queue, op)

enqueue(queue, op) ==
    IF stop_set
    THEN queue
    ELSE IF Len(queue) >= QueueMaxsize THEN queue ELSE Append(queue, op)

RECURSIVE enqueue_all(_, _)
enqueue_all(queue, ops) ==
    IF ops = <<>> THEN queue
    ELSE enqueue_all(enqueue(queue, Head(ops)), Tail(ops))

\* the calls of enqueue one on_event makes, each with whether the queue took it
RECURSIVE EnqueueCalls(_, _)
EnqueueCalls(queue, ops) ==
    IF ops = <<>> THEN <<>>
    ELSE LET after == enqueue(queue, Head(ops))
         IN  <<[op |-> Head(ops), queued |-> Len(after) > Len(queue)]>>
             \o EnqueueCalls(after, Tail(ops))

log_workflow_event(e) ==
    IF e.event \in CHUNK_EVENTS
    THEN <<>>
    ELSE <<Op("workflow_event", [event_type |-> e.event, payload |-> e])>>

\* dict.setdefault and dict.pop
SetDefault(dict, key, value) ==
    [k \in DOMAIN dict \cup {key} |-> IF k \in DOMAIN dict THEN dict[k] ELSE value]

Pop(dict, key) == [k \in DOMAIN dict \ {key} |-> dict[k]]

EmptyBuf == [content |-> <<>>, thinking |-> <<>>]

NewExchangeParts(key) ==
    [round_number |-> key[1], challenger |-> key[2], responder |-> key[3],
     debate_type |-> debate_ctx.current_debate_type,
     challenge_parts |-> <<>>, response_parts |-> <<>>, followup_parts |-> <<>>]

\* the key of a challenge or follow-up event
challenger_key(e) == <<e.round_number, e.from_agent, e.to_agent>>

\* the respond events are keyed as the challenge events are
respond_key_as_sent(e) == <<e.round_number, e.from_agent, e.to_agent>>

\* a respond event goes from the responder to the challenger: flipped back
respond_key(e) == <<e.round_number, e.to_agent, e.from_agent>>

ExchangeKeyOf(e) ==
    IF e.event \in {"agent_respond", "agent_respond_end"}
    THEN respond_key(e) ELSE challenger_key(e)

PartsField(e) ==
    CASE e.event \in {"agent_challenge", "agent_challenge_end"} -> "challenge_parts"
      [] e.event \in {"agent_respond", "agent_respond_end"} -> "response_parts"
      [] OTHER -> "followup_parts"

\* what on_event leaves behind: the operations it enqueues and the buffers
Handled(ops, bufs, ctx, parts) ==
    [ops |-> ops, agent_bufs |-> bufs, debate_ctx |-> ctx, exchange_parts |-> parts]

flush_exchange(parts, key) ==
    IF key \notin DOMAIN parts
    THEN Handled(<<>>, agent_bufs, debate_ctx, parts)
    ELSE LET ex == parts[key]
             followup == Join(ex.followup_parts)
         IN  Handled(<<Op("insert_debate",
                          [round_number |-> ex.round_number,
                           debate_type |-> ex.debate_type,
                           challenger |-> ex.challenger,
                           responder |-> ex.responder,
                           challenge_content |-> Join(ex.challenge_parts),
                           response_content |-> Join(ex.response_parts),
                           followup_content |->
                               IF followup = <<>> THEN None ELSE Some(followup)])>>,
                     agent_bufs, debate_ctx, Pop(parts, key))

\* lines 190-552, after the event has been logged
handle(e) ==
    LET keep == Handled(<<>>, agent_bufs, debate_ctx, exchange_parts)
        key == ExchangeKeyOf(e)
        opened == SetDefault(exchange_parts, key, NewExchangeParts(key))
    IN  CASE e.event = "orchestrator_start" ->
               Handled(<<Op("update_session", [status |-> "running", phase |-> "gather",
                                               current_debate_round |-> 0])>>,
                       agent_bufs, debate_ctx, exchange_parts)
          [] e.event = "orchestrator_end" ->
               Handled(<<Op("update_session",
                            [status |-> "completed", phase |-> "complete",
                             synthesized_report |-> e.content,
                             evidence_pack |-> TRUE, memory_snapshot |-> TRUE])>>,
                       agent_bufs, debate_ctx, exchange_parts)
          [] e.event = "error" ->
               Handled(<<Op("update_session",
                            [status |-> "failed", phase |-> "error",
                             error_message |-> e.content])>>,
                       agent_bufs, debate_ctx, exchange_parts)
          [] e.event = "agent_error" ->
               IF e.agent = "" THEN keep
               ELSE Handled(<<Op("upsert_agent_result",
                                 [agent |-> e.agent, status |-> "failed"])>>,
                            agent_bufs, debate_ctx, exchange_parts)
          [] e.event = "agent_start" ->
               IF e.agent = "" THEN keep
               ELSE Handled(<<Op("upsert_agent_result",
                                 [agent |-> e.agent, status |-> "running"])>>,
                            [a \in DOMAIN agent_bufs \cup {e.agent} |->
                               IF a = e.agent THEN EmptyBuf ELSE agent_bufs[a]],
                            debate_ctx, exchange_parts)
          [] e.event \in {"agent_chunk", "agent_thinking"} ->
               IF e.agent = "" \/ e.content = None THEN keep
               ELSE LET bufs == SetDefault(agent_bufs, e.agent, EmptyBuf)
                        field == IF e.event = "agent_chunk" THEN "content"
                                                            ELSE "thinking"
                    IN  Handled(<<>>,
                                [bufs EXCEPT ![e.agent][field] = Append(@, e.content[1])],
                                debate_ctx, exchange_parts)
          [] e.event = "agent_end" ->
               IF e.agent = "" THEN keep
               ELSE LET known == e.agent \in DOMAIN agent_bufs
                    IN  Handled(<<Op("upsert_agent_result",
                                     [agent |-> e.agent,
                                      status |-> IF e.status = "" THEN "completed"
                                                 ELSE e.status,
                                      content |->
                                          IF known
                                          THEN Some(Join(agent_bufs[e.agent].content))
                                          ELSE None,
                                      thinking |->
                                          IF known /\ agent_bufs[e.agent].thinking # <<>>
                                          THEN Some(Join(agent_bufs[e.agent].thinking))
                                          ELSE None])>>,
                                agent_bufs, debate_ctx, exchange_parts)
          [] e.event = "debate_round_start" ->
               Handled(<<Op("update_session",
                            [phase |-> IF DebateType(e.round_number) = "peer_review"
                                       THEN "debate_peer" ELSE "debate_redteam",
                             current_debate_round |-> e.round_number])>>,
                       agent_bufs,
                       [current_round |-> e.round_number,
                        current_debate_type |-> DebateType(e.round_number)],
                       exchange_parts)
          [] e.event \in {"agent_challenge", "agent_respond", "agent_followup"} ->
               IF e.from_agent = "" \/ e.to_agent = "" THEN keep
               ELSE Handled(<<>>, agent_bufs, debate_ctx,
                            IF e.content # None /\ e.content[1] # <<>>
                            THEN [opened EXCEPT ![key][PartsField(e)] = <<e.content[1]>>]
                            ELSE opened)
          [] e.event \in {"agent_challenge_end", "agent_respond_end",
                          "agent_followup_end"} ->
               IF e.from_agent = "" \/ e.to_agent = "" THEN keep
               ELSE LET parts == IF e.content # None
                                 THEN [opened EXCEPT ![key][PartsField(e)] =
                                                         <<e.content[1]>>]
                                 ELSE opened
                    IN  IF \/ e.event = "agent_followup_end"
                           \/ e.event = "agent_respond_end" /\ ~ config.enable_followup
                        THEN flush_exchange(parts, key)
                        ELSE Handled(<<>>, agent_bufs, debate_ctx, parts)
          [] OTHER -> keep

InsertedKeys(ops) ==
    {<<ops[i].args.round_number, ops[i].args.challenger, ops[i].args.responder>> :
        i \in {j \in 1..Len(ops) : ops[j].kind = "insert_debate"}}

\* on_event as the sink runs it for event e
sink_on_event(e) ==
    /\ last_event' = e
    /\ IF enabled /\ worker
       THEN LET h == handle(e)
                ops == log_workflow_event(e) \o h.ops
                calls == EnqueueCalls(q, ops)
            IN  /\ enqueue_calls' = calls
                /\ q' = enqueue_all(q, ops)
                /\ agent_bufs' = h.agent_bufs
                /\ debate_ctx' = h.debate_ctx
                /\ exchange_parts' = h.exchange_parts
                /\ inserted' = inserted (+) SetToBag(InsertedKeys(ops))
                /\ overflowed' = (overflowed \/ \E i \in 1..Len(calls) : ~ calls[i].queued)
       ELSE /\ enqueue_calls' = <<>>
            /\ UNCHANGED <<q, agent_bufs, debate_ctx, exchange_parts, inserted, overflowed>>
    /\ UNCHANGED <<inputVars, calc, workflowVars, toolVars, throttleVars,
                   enabled, worker, config, stop_set, pg_closed, stop_pc,
                   run_pc, last_write, session_row>>

\* the request handler hands the next event of the stream to the sink
on_event(e, next_feed) ==
    /\ stop_pc = "idle"
    /\ feed' = next_feed
    /\ sink_on_event(e)

(***************************************************************************)
(* DbWriteWorker._run and stop; SessionEventSink.close.                    *)
(***************************************************************************)
\* an update that writes the status column alone
update_session_status_only(row, fields) ==
    [k \in DOMAIN row \cup (DOMAIN fields \cap {"status"}) |->
        IF k \in DOMAIN fields THEN fields[k] ELSE row[k]]

\* PgClient.update_session_fields: the columns named are set, the others kept
update_session_fields(row, fields) ==
    [k \in DOMAIN row \cup DOMAIN fields |-> IF k \in DOMAIN fields THEN fields[k] ELSE row[k]]

\* one turn of the consumer loop: the sentinel ends the thread, any other
\* operation goes to the store, whose failure is logged and slept on
run ==
    /\ run_pc = "get"
    /\ q # <<>>
    /\ q' = Tail(q)
    /\ IF Head(q).kind = "__stop__"
       THEN /\ run_pc' = "returned"
            /\ UNCHANGED <<last_write, session_row>>
       ELSE /\ \E ok \in BOOLEAN :
                  /\ last_write' = [written |-> TRUE, ok |-> ok,
                                    after_close |-> pg_closed]
                  /\ session_row' = IF ok /\ Head(q).kind = "update_session"
                                    THEN update_session_fields(session_row, Head(q).args)
                                    ELSE session_row
            /\ UNCHANGED run_pc
    /\ UNCHANGED <<inputVars, calc, workflowVars, toolVars, throttleVars,
                   enabled, worker, config, agent_bufs, debate_ctx,
                   exchange_parts, stop_set, pg_closed, stop_pc, feed,
                   last_event, enqueue_calls, inserted, overflowed>>

\* close() with a worker calls stop(): the sentinel is put unless the queue
\* is full
stop_put ==
    /\ worker
    /\ stop_pc = "idle"
    /\ q' = IF Len(q) >= QueueMaxsize THEN q ELSE Append(q, StopOp)
    /\ stop_pc' = "join"
    /\ UNCHANGED <<inputVars, calc, workflowVars, toolVars, throttleVars,
                   enabled, worker, config, agent_bufs, debate_ctx,
                   exchange_parts, stop_set, pg_closed, run_pc, feed,
                   last_event, enqueue_calls, inserted, last_write, session_row,
                   overflowed>>

\* a close() that stops the worker but keeps the sink's reference to it
stop_close_keeps_worker ==
    /\ stop_pc = "join"
    /\ stop_pc' = "done"
    /\ stop_set' = TRUE
    /\ pg_closed' = TRUE
    /\ UNCHANGED <<inputVars, calc, workflowVars, toolVars, throttleVars,
                   enabled, worker, config, agent_bufs, debate_ctx, exchange_parts, q,
                   run_pc, feed, last_event, enqueue_calls, inserted, last_write,
                   session_row, overflowed>>

\* join(timeout=3) returns, because the thread has ended or the three
\* seconds are over; then the flag is set, the connection closed and the
\* sink forgets its worker
stop_close ==
    /\ stop_pc = "join"
    /\ stop_pc' = "done"
    /\ stop_set' = TRUE
    /\ pg_closed' = TRUE
    /\ worker' = FALSE
    /\ UNCHANGED <<inputVars, calc, workflowVars, toolVars, throttleVars,
                   enabled, config, agent_bufs, debate_ctx, exchange_parts, q,
                   run_pc, feed, last_event, enqueue_calls, inserted, last_write,
                   session_row, overflowed>>

SinkStart ==
    /\ WorkflowInit({TRUE}, ToolRequests)
    /\ GuardrailInit(MaxCeiling, [num |-> 1, den |-> 2], 1)
    /\ RegistryInit
    /\ calc = NoCalc
    /\ SinkInit(BOOLEAN, BOOLEAN)
    /\ ThrottleInit

SinkNext ==
    \/ \E next \in NextEvents(feed, config.enable_followup) : on_event(next[1], next[2])
    \/ run
    \/ stop_put
    \/ stop_close

SinkSpec == SinkStart /\ [][SinkNext]_vars

(***************************************************************************)
(* _build_demo_metrics (routers/v2/market_insight.py): the stability score *)
(* from the counts it has taken from the session's rows.  Scores and       *)
(* penalties are in hundredths of a point, the tool error rate in percent. *)
(***************************************************************************)
MaxAgentCount == 4

MaxEventCount == 1

MaxRetryCount == 11

\* below, at and beyond the ten retries that use up the retry penalty
RetryCounts == {0, 1, 10, MaxRetryCount}

ErrorRatePercents == {0, 50, 100}

\* 100.0 - penalty, not brought back into the range
stability_score_unclamped(failed, degraded, guardrail, adaptive_degraded, retries, error_rate) ==
    10000 - (100 * (failed * 30 + degraded * 12 + guardrail * 15
                    + adaptive_degraded * 6 + Min(20, retries * 2))
             + Min(2500, error_rate * 25))

stability_score(failed, degraded, guardrail, adaptive_degraded, retries, error_rate) ==
    LET penalty == 100 * (failed * 30) + 100 * (degraded * 12)
                   + 100 * (guardrail * 15) + 100 * (adaptive_degraded * 6)
                   + 100 * Min(20, retries * 2) + Min(2500, error_rate * 25)
    IN  Max(0, Min(10000, 10000 - penalty))

build_demo_metrics(failed, degraded, guardrail, adaptive_degraded, retries, error_rate) ==
    /\ calc' = [fn |-> "build_demo_metrics",
                failed_agents |-> failed, degraded_agents |-> degraded,
                guardrail_trigger_count |-> guardrail,
                adaptive_degraded_count |-> adaptive_degraded,
                retry_count |-> retries, tool_error_rate |-> error_rate,
                stability_score |->
                    stability_score(failed, degraded, guardrail, adaptive_degraded,
                                    retries, error_rate)]
    /\ UNCHANGED <<inputVars, sinkVars, workflowVars, toolVars, throttleVars>>

MetricsStart ==
    /\ WorkflowInit({TRUE}, ToolRequests)
    /\ GuardrailInit(MaxCeiling, [num |-> 1, den |-> 2], 1)
    /\ RegistryInit
    /\ SideInit
    /\ ThrottleInit

MetricsNext ==
    \E failed \in 0..MaxAgentCount, guardrail \in 0..MaxEventCount,
       adaptive_degraded \in 0..MaxEventCount, retries \in RetryCounts,
       error_rate \in ErrorRatePercents :
       \E degraded \in 0..(MaxAgentCount - failed) :
       build_demo_metrics(failed, degraded, guardrail, adaptive_degraded, retries,
                          error_rate)

MetricsSpec == MetricsStart /\ [][MetricsNext]_vars

(***************************************************************************)
(* The sources of a web search: create_response_stream_v2 (core/           *)
(* ark_client.py) collects them from what the search results carry and     *)
(* hands them over in the metadata of SEARCH_COMPLETE; end_invocation      *)
(* (tools/registry.py) writes the tool_end event from that metadata.       *)
(* Strings are tuples of characters.                                       *)
(***************************************************************************)
\* searches completed within one response stream
MaxSearches == 2

\* values one completed search carries
MaxBatch == 2

\* a value that is not a string (a result without url)
NotAString == <<"None">>

\* "https://a"
RawUrl == <<"h", "t", "t", "p", "s", ":", "/", "/", "a">>

\* " https://a "
RawPaddedUrl == <<" ", "h", "t", "t", "p", "s", ":", "/", "/", "a", " ">>

\* "www.b"
RawWwwHost == <<"w", "w", "w", ".", "b">>

\* "http://c."
RawUrlWithStop == <<"h", "t", "t", "p", ":", "/", "/", "c", ".">>

\* "ftp://d"
RawOtherScheme == <<"f", "t", "p", ":", "/", "/", "d">>

RawValues ==
    {RawUrl, RawPaddedUrl, RawWwwHost, RawUrlWithStop, RawOtherScheme, NotAString}

Batches == UNION {[1..n -> RawValues] : n \in 0..MaxBatch}

startswith(value, prefix) ==
    /\ Len(value) >= Len(prefix)
    /\ SubSeq(value, 1, Len(prefix)) = prefix

RECURSIVE lstrip(_, _)
lstrip(value, chars) ==
    IF value # <<>> /\ Head(value) \in chars THEN lstrip(Tail(value), chars) ELSE value

RECURSIVE rstrip(_, _)
rstrip(value, chars) ==
    IF value # <<>> /\ value[Len(value)] \in chars
    THEN rstrip(SubSeq(value, 1, Len(value) - 1), chars)
    ELSE value

Whitespace == {" "}

\* .,;:)]}>"'
TrailingPunctuation == {".", ",", ";", ":", ")", "]", "}", ">", "\"", "'"}

Collected(sources, seen) == [sources |-> sources, source_seen |-> seen]

\* any string left after the trimming counts as a source
add_source_any_scheme(sources, seen, raw_value) ==
    IF raw_value = NotAString \/ raw_value \in seen
    THEN Collected(sources, seen)
    ELSE Collected(Append(sources, raw_value), seen \cup {raw_value})

add_source(sources, seen, raw_value) ==
    IF raw_value = NotAString
    THEN Collected(sources, seen)
    ELSE LET stripped == rstrip(lstrip(raw_value, Whitespace), Whitespace)
             schemed == IF startswith(stripped, <<"w", "w", "w", ".">>)
                        THEN <<"h", "t", "t", "p", "s", ":", "/", "/">> \o stripped
                        ELSE stripped
             value == rstrip(schemed, TrailingPunctuation)
         IN  IF \/ stripped = <<>>
                \/ ~ (startswith(value, <<"h", "t", "t", "p", ":", "/", "/">>) \/ startswith(value, <<"h", "t", "t", "p", "s", ":", "/", "/">>))
                \/ value \in seen
             THEN Collected(sources, seen)
             ELSE Collected(Append(sources, value), seen \cup {value})

\* the results of one completed search, added one by one
RECURSIVE add_sources(_, _)
add_sources(collected, batch) ==
    IF batch = <<>> THEN collected
    ELSE add_sources(add_source(collected.sources, collected.source_seen, Head(batch)),
                     Tail(batch))

\* list(dict.fromkeys(items)), and the loop of _extract_sources
RECURSIVE Distinct(_)
Distinct(items) ==
    IF items = <<>> THEN <<>>
    ELSE LET front == Distinct(SubSeq(items, 1, Len(items) - 1))
             item == items[Len(items)]
         IN  IF \E i \in 1..Len(front) : front[i] = item THEN front
             ELSE Append(front, item)

search_complete_metadata(sources) ==
    [sources_count |-> Len(sources), sources |-> Distinct(sources)]

extract_sources(metadata) == Distinct(metadata.sources)

\* the source fields of the tool_end payload end_invocation writes
tool_end_sources(metadata) ==
    LET sources == extract_sources(metadata)
    IN  [sources |-> sources,
         sources_count |-> IF metadata.sources_count # 0
                           THEN metadata.sources_count ELSE Len(sources)]

\* what the stream has collected so far
StreamSources ==
    IF calc.fn = "web_search"
    THEN [sources |-> calc.sources, source_seen |-> calc.source_seen,
          searches |-> calc.searches]
    ELSE [sources |-> <<>>, source_seen |-> {}, searches |-> 0]

\* a response.web_search_call.completed chunk with these results arrives,
\* and the tool_end event of the search is written
web_search_completed(batch) ==
    /\ StreamSources.searches < MaxSearches
    /\ LET collected == add_sources(StreamSources, batch)
       IN  calc' = [fn |-> "web_search", batch |-> batch,
                    searches |-> StreamSources.searches + 1,
                    sources |-> collected.sources,
                    source_seen |-> collected.source_seen,
                    tool_end |->
                        tool_end_sources(search_complete_metadata(collected.sources))]
    /\ UNCHANGED <<inputVars, sinkVars, workflowVars, toolVars, throttleVars>>

SourcesStart ==
    /\ WorkflowInit({TRUE}, ToolRequests)
    /\ GuardrailInit(MaxCeiling, [num |-> 1, den |-> 2], 1)
    /\ RegistryInit
    /\ SideInit
    /\ ThrottleInit

SourcesNext == \E batch \in Batches : web_search_completed(batch)

SourcesSpec == SourcesStart /\ [][SourcesNext]_vars

(***************************************************************************)
(* The LLM calls of a session and the use_websearch flag each is issued    *)
(* with: a worker attempt (agent.analyze, lines 712-730), a debate call    *)
(* (_execute_agent_call, lines 1308-1393) and the synthesizer's call       *)
(* (lines 1533-1539).  calc records the call last issued.                  *)
(***************************************************************************)
DebatePrefixes == {"agent_challenge", "agent_respond", "agent_followup"}

\* lines 712-730: attempt `attempt` of a worker; the agent's attribute is
\* overwritten with the effective flag and analyze passes it on (base.py 204)
worker_llm_call(agent, attempt) ==
    /\ has_factory
    /\ attempt \in 1..cfg.retry_max_attempts
    /\ calc' = [fn |-> "llm_call", site |-> "agent", agent |-> agent,
                round_number |-> 0, attempt |-> attempt,
                use_websearch |-> effective_websearch(agent, cfg.enable_websearch)]
    /\ UNCHANGED <<inputVars, sinkVars, workflowVars, toolVars, throttleVars>>

\* _execute_agent_call for the challenge, response or follow-up of the
\* exchange challenger -> responder of round r
debate_llm_call(event_prefix, r, challenger, responder, attempt) ==
    /\ has_factory
    /\ r \in 1..cfg.debate_rounds
    /\ attempt \in 1..cfg.retry_max_attempts
    /\ event_prefix = "agent_followup" => cfg.enable_followup
    /\ LET agent == IF event_prefix = "agent_respond" THEN responder ELSE challenger
       IN  calc' = [fn |-> "llm_call", site |-> event_prefix, agent |-> agent,
                    round_number |-> r, attempt |-> attempt,
                    use_websearch |-> effective_websearch(agent, cfg.enable_websearch)]
    /\ UNCHANGED <<inputVars, sinkVars, workflowVars, toolVars, throttleVars>>

\* lines 1533-1539: the synthesizer calls the client itself, use_websearch=False
synthesizer_llm_call(attempt) ==
    /\ has_factory
    /\ attempt \in 1..cfg.retry_max_attempts
    /\ calc' = [fn |-> "llm_call", site |-> "synthesizer", agent |-> SYNTHESIZER,
                round_number |-> 0, attempt |-> attempt, use_websearch |-> FALSE]
    /\ UNCHANGED <<inputVars, sinkVars, workflowVars, toolVars, throttleVars>>

\* sessions of every switch setting, without retry backoff
WebsearchRequests ==
    {r \in Requests : r.retry_backoff_ms = 0 /\ r.degrade_mode = "partial"}

WebsearchStart ==
    /\ WorkflowInit(BOOLEAN, WebsearchRequests)
    /\ GuardrailInit(MaxCeiling, [num |-> 1, den |-> 2], 1)
    /\ RegistryInit
    /\ SideInit
    /\ ThrottleInit

WebsearchNext ==
    \/ \E agent \in Workers, attempt \in 1..MaxRawAttempts : worker_llm_call(agent, attempt)
    \/ \E event_prefix \in DebatePrefixes, r \in 1..2, attempt \in 1..MaxRawAttempts :
          \E i \in 1..Len(RoundExchanges(r)) :
             debate_llm_call(event_prefix, r, RoundExchanges(r)[i][1],
                             RoundExchanges(r)[i][2], attempt)
    \/ \E attempt \in 1..MaxRawAttempts : synthesizer_llm_call(attempt)

WebsearchSpec == WebsearchStart /\ [][WebsearchNext]_vars

(***************************************************************************)
(* build_evidence_pack (core/evidence_pack.py).  A text is a sequence of   *)
(* characters, a dict a record or a function, an absent value None.  calc  *)
(* holds the arguments of the call and the packs the calls made with them  *)
(* have returned.                                                          *)
(***************************************************************************)
MaxRows == 2            \* bound: agent results handed in
MaxRowSources == 2      \* bound: raw sources of one agent result
MaxPackCalls == 2       \* bound: calls made with the same arguments

\* the character the clipping appends
Ellipsis == "..."

\* a report longer than every limit of _clip_text
LongText == [i \in 1..301 |-> "x"]

\* raw sources of the agent results: "a", " a", "b"
EvidenceSourceItems == {<<"a">>, <<" ", "a">>, <<"b">>}

EvidenceSourceLists == UNION {[1..n -> EvidenceSourceItems] : n \in 0..MaxRowSources}

\* a confidence in units of 0.0001, or a value float() rejects
EvidenceConfidences == {None, Some(15000)}

EvidenceRows ==
    [agent_name : {None, Some(TREND_SCOUT), Some(COMPETITOR_ANALYST)},
     content : {<<" ", "x">>},
     confidence : EvidenceConfidences,
     sources : EvidenceSourceLists]

EvidenceDebateRows ==
    {[round_number |-> 1, debate_type |-> "peer_review", challenger |-> TREND_SCOUT,
      responder |-> COMPETITOR_ANALYST, revised |-> TRUE,
      challenge_content |-> <<"c">>, response_content |-> LongText]}

\* datetime.now(timezone.utc).isoformat() at the moment of a call
ClockReadings == {"t1", "t2"}

\* f"{n:03d}"
Digits == <<"0", "1", "2", "3", "4", "5", "6", "7", "8", "9">>

Pad3(n) ==
    <<Digits[((n \div 100) % 10) + 1], Digits[((n \div 10) % 10) + 1], Digits[(n % 10) + 1]>>

\* f"agent_{idx}"
AgentIdxName(idx) ==
    IF idx = 1 THEN "agent_1" ELSE IF idx = 2 THEN "agent_2"
    ELSE IF idx = 3 THEN "agent_3" ELSE "agent_n"

\* str(text or "").strip(), cut to limit - 1 characters and the ellipsis
clip_text(text, limit) ==
    LET raw == rstrip(lstrip(text, Whitespace), Whitespace)
    IN  IF Len(raw) <= limit THEN raw
        ELSE SubSeq(raw, 1, Max(0, limit - 1)) \o <<Ellipsis>>

\* the stripped values that are not empty, in order
RECURSIVE StrippedSources(_)
StrippedSources(items) ==
    IF items = <<>> THEN <<>>
    ELSE LET value == rstrip(lstrip(Head(items), Whitespace), Whitespace)
         IN  (IF value # <<>> THEN <<value>> ELSE <<>>) \o StrippedSources(Tail(items))

normalize_source_list(raw_sources) == Distinct(StrippedSources(raw_sources))

\* round(num, 3) of a value in units of 0.0001, in units of 0.001
round3(n) ==
    LET quot == n \div 10
        rest == n % 10
    IN  IF rest < 5 THEN quot ELSE IF rest > 5 THEN quot + 1 ELSE quot + (quot % 2)

\* in units of 0.001
normalize_confidence(value) ==
    IF value = None THEN 600 ELSE Max(0, Min(1000, round3(value[1])))

NoSourceIndex == [sources |-> <<>>, value_to_id |-> <<>>]

\* the inner loop of _build_source_index for one row
RECURSIVE index_row_sources(_, _, _)
index_row_sources(index, agent_name, srcs) ==
    IF srcs = <<>> THEN index
    ELSE LET src == Head(srcs)
             source_id == <<"S">> \o Pad3(Len(index.sources) + 1)
         IN  IF src \in DOMAIN index.value_to_id
             THEN index_row_sources(index, agent_name, Tail(srcs))
             ELSE index_row_sources(
                    [sources |-> Append(index.sources,
                                        [source_id |-> source_id, source |-> src,
                                         first_seen_in_agent |-> agent_name]),
                     value_to_id |-> [v \in DOMAIN index.value_to_id \cup {src} |->
                                        IF v = src THEN source_id
                                        ELSE index.value_to_id[v]]],
                    agent_name, Tail(srcs))

\* every row numbers its own sources from S001, whatever the rows before it hold
RECURSIVE build_source_index_per_row(_)
build_source_index_per_row(agent_rows) ==
    IF agent_rows = <<>> THEN NoSourceIndex
    ELSE LET front == build_source_index_per_row(SubSeq(agent_rows, 1, Len(agent_rows) - 1))
             row == agent_rows[Len(agent_rows)]
             own == index_row_sources(NoSourceIndex, "unknown", normalize_source_list(row.sources))
         IN  [sources |-> front.sources \o own.sources,
              value_to_id |-> [v \in DOMAIN front.value_to_id \cup DOMAIN own.value_to_id |->
                                 IF v \in DOMAIN own.value_to_id THEN own.value_to_id[v]
                                 ELSE front.value_to_id[v]]]

RECURSIVE build_source_index(_)
build_source_index(agent_rows) ==
    IF agent_rows = <<>> THEN NoSourceIndex
    ELSE LET row == agent_rows[Len(agent_rows)]
             agent_name == IF row.agent_name = None THEN "unknown" ELSE row.agent_name[1]
         IN  index_row_sources(build_source_index(SubSeq(agent_rows, 1, Len(agent_rows) - 1)),
                               agent_name, normalize_source_list(row.sources))

\* the source ids of the values the index knows
source_refs_of(source_id_map, srcs) ==
    LET known == SelectSeq(srcs, LAMBDA src : src \in DOMAIN source_id_map)
    IN  [i \in 1..Len(known) |-> source_id_map[known[i]]]

build_evidence_pack(session_id, agent_rows, debate_rows, final_report, generated_at, now) ==
    LET stamp == IF generated_at = None THEN now ELSE generated_at[1]
        index == build_source_index(agent_rows)
        agent_of(idx) == IF agent_rows[idx].agent_name = None THEN AgentIdxName(idx)
                         ELSE agent_rows[idx].agent_name[1]
        refs(idx) == source_refs_of(index.value_to_id,
                                    normalize_source_list(agent_rows[idx].sources))
        claim_id(idx) == <<"C">> \o Pad3(idx)
        claims == [idx \in 1..Len(agent_rows) |->
                     [claim_id |-> claim_id(idx),
                      agent |-> agent_of(idx),
                      summary |-> clip_text(agent_rows[idx].content, 240),
                      confidence |-> normalize_confidence(agent_rows[idx].confidence),
                      source_refs |-> refs(idx),
                      generated_at |-> stamp]]
        traceability == [idx \in 1..Len(agent_rows) |->
                           [claim_id |-> claim_id(idx), from_agent |-> agent_of(idx),
                            source_refs |-> refs(idx)]]
        debate_adjustments ==
            [i \in 1..Len(debate_rows) |->
               [round_number |-> debate_rows[i].round_number,
                debate_type |-> debate_rows[i].debate_type,
                challenger |-> debate_rows[i].challenger,
                responder |-> debate_rows[i].responder,
                revised |-> debate_rows[i].revised,
                challenge_summary |-> clip_text(debate_rows[i].challenge_content, 140),
                response_summary |-> clip_text(debate_rows[i].response_content, 140)]]
    IN  [version |-> "phase3.v1",
         session_id |-> session_id,
         generated_at |-> stamp,
         report_excerpt |-> clip_text(final_report, 300),
         claims |-> claims,
         sources |-> index.sources,
         debate_adjustments |-> debate_adjustments,
         traceability |-> traceability,
         stats |-> [claims_count |-> Len(claims), sources_count |-> Len(index.sources),
                    debate_count |-> Len(debate_adjustments)]]

\* the arguments of the calls: the synthesizer node hands its own clock
\* reading in, the report endpoint leaves generated_at out
EvidenceArgs ==
    [agent_results : UNION {[1..n -> EvidenceRows] : n \in 0..MaxRows},
     debate_exchanges : {<<>>} \cup {<<row>> : row \in EvidenceDebateRows},
     final_report : {LongText},
     generated_at : {None, Some("g")}]

\* one more call with the arguments
build_evidence_pack_call ==
    /\ calc.fn = "build_evidence_pack"
    /\ Len(calc.packs) < MaxPackCalls
    /\ \E now \in ClockReadings :
          calc' = [calc EXCEPT !.packs =
                     Append(@, build_evidence_pack(EngineSession, calc.args.agent_results,
                                                   calc.args.debate_exchanges,
                                                   calc.args.final_report,
                                                   calc.args.generated_at, now))]
    /\ UNCHANGED <<inputVars, sinkVars, workflowVars, toolVars, throttleVars>>

EvidenceStart ==
    /\ WorkflowInit({TRUE}, ToolRequests)
    /\ GuardrailInit(MaxCeiling, [num |-> 1, den |-> 2], 1)
    /\ RegistryInit
    /\ \E args \in EvidenceArgs :
          calc = [fn |-> "build_evidence_pack", args |-> args, packs |-> <<>>]
    /\ SinkInit({FALSE}, {TRUE})
    /\ ThrottleInit

EvidenceNext == build_evidence_pack_call

EvidenceSpec == EvidenceStart /\ [][EvidenceNext]_vars

(***************************************************************************)
(* estimate_tokens (tools/metrics.py).  A payload is None or a string; a   *)
(* string is a sequence of characters, each standing for its class: an     *)
(* ASCII word character, a CJK ideograph, another letter (a word character *)
(* that is neither), white space, a punctuation mark.                      *)
(***************************************************************************)
MaxTextLen == 4         \* bound: characters of a payload

\* [A-Za-z0-9_]
AsciiWordChars == {"a"}

\* [一-鿿]
CjkChars == {"U+4E2D"}

\* \w characters outside both classes, as U+00E9
OtherWordChars == {"U+00E9"}

PunctuationChars == {"."}

TextChars == AsciiWordChars \cup CjkChars \cup OtherWordChars \cup Whitespace \cup PunctuationChars

Payloads == {None} \cup {Some(text) : text \in UNION {[1..n -> TextChars] : n \in 0..MaxTextLen}}

\* _to_text for None and for a string
to_text(payload) == IF payload = None THEN <<>> ELSE payload[1]

\* len(re.findall(r"[A-Za-z0-9_]+", text)): the maximal runs of such characters
ascii_word_count(text) ==
    Cardinality({i \in 1..Len(text) :
                   /\ text[i] \in AsciiWordChars
                   /\ (i = 1 \/ text[i - 1] \notin AsciiWordChars)})

\* len(re.findall(r"[一-鿿]", text))
cjk_char_count(text) == Cardinality({i \in 1..Len(text) : text[i] \in CjkChars})

\* len(re.findall(r"[^\w\s一-鿿]", text))
punct_char_count(text) ==
    Cardinality({i \in 1..Len(text) :
                   text[i] \notin AsciiWordChars \cup OtherWordChars \cup Whitespace \cup CjkChars})

\* round() of a value given in tenths: to the nearest integer, a half to the
\* even one
round_tenths(tenths) ==
    LET whole == tenths \div 10
        rest == tenths % 10
    IN  IF rest < 5 THEN whole ELSE IF rest > 5 THEN whole + 1 ELSE whole + (whole % 2)

\* the weighted sum is kept in tenths of a token
estimate_tokens(payload) ==
    LET text == to_text(payload)
        estimate == (ascii_word_count(text) * 13) + (cjk_char_count(text) * 15)
                    + (punct_char_count(text) * 3)
    IN  IF text = <<>> THEN 0
        ELSE IF estimate <= 0 THEN 1
        ELSE round_tenths(estimate)

estimate_tokens_call ==
    /\ calc.fn = "estimate_tokens"
    /\ ~ calc.returned
    /\ calc' = [calc EXCEPT !.returned = TRUE, !.tokens = estimate_tokens(calc.payload)]
    /\ UNCHANGED <<inputVars, sinkVars, workflowVars, toolVars, throttleVars>>

TokensStart ==
    /\ WorkflowInit({TRUE}, ToolRequests)
    /\ GuardrailInit(MaxCeiling, [num |-> 1, den |-> 2], 1)
    /\ RegistryInit
    /\ \E payload \in Payloads :
          calc = [fn |-> "estimate_tokens", payload |-> payload, returned |-> FALSE,
                  tokens |-> 0]
    /\ SinkInit({FALSE}, {TRUE})
    /\ ThrottleInit

TokensNext == estimate_tokens_call

TokensSpec == TokensStart /\ [][TokensNext]_vars

(***************************************************************************)
(* event_generator of the /stream endpoint (routers/v2/market_insight.py)  *)
(* with the sink: the events of one session as the engine's stream yields  *)
(* them (orchestrator_start, one worker with its attempts, the peer round  *)
(* with one exchange, the synthesizer, orchestrator_end or error), the     *)
(* disconnect check before every pull, the error event the except blocks   *)
(* hand to the sink, and close() in the finally.  feed.exchange_record is  *)
(* what _execute_debate_exchange has returned for the exchange: a          *)
(* DebateExchange of a successful attempt, the degraded one of partial     *)
(* mode, or nothing.  The endpoint always passes an agent factory (line    *)
(* 272), so the engine's branches without one are not taken here.          *)
(***************************************************************************)
MaxAttemptChunks == 1   \* bound: output deltas of one worker attempt

StatusEvent(name, agent, status, attempt) ==
    [Event(name, agent, 0, "", "", None, attempt) EXCEPT !.status = status]

ErrorEvent == Event("error", "", 0, "", "", Some(<<Token("error", 0, 0)>>), 0)

At(f, stage, attempt, chunks) ==
    [f EXCEPT !.stage = stage, !.attempt = attempt, !.chunks = chunks]

Returned(f, record) == [At(f, "synthesizer", 1, 0) EXCEPT !.exchange_record = record]

RoundEndEvent == Event("debate_round_end", "", 1, "", "", None, 0)

\* graph_engine.py 1272-1305: the attempt of the exchange has raised
StreamExchangeFails(f) ==
    IF f.attempt < cfg.retry_max_attempts
    THEN <<Event("retry", "", 0, "", "", None, f.attempt), At(f, "exchange", f.attempt + 1, 0)>>
    ELSE CASE cfg.degrade_mode = "fail" -> <<ErrorEvent, At(f, "failed", 1, 0)>>
           [] cfg.degrade_mode = "partial" -> <<RoundEndEvent, Returned(f, "partial")>>
           [] OTHER -> <<RoundEndEvent, Returned(f, "none")>>

\* the node goes on to the debate round
RoundStarts(f) ==
    <<Event("debate_round_start", "", 1, "", "", None, 0), At(f, "exchange", 1, 0)>>

StreamEvents(f) ==
    LET c == SinkChallenger(1)
        r == SinkResponder(1)
    IN
    CASE f.stage = "agent_idle" ->
           \* the engine is created and yields its first event, or its creation raises
           {<<Event("orchestrator_start", "", 0, "", "", None, 0), At(f, "worker", 1, 0)>>,
            <<ErrorEvent, At(f, "failed", 1, 0)>>}
      [] f.stage = "worker" ->
           {<<Event("agent_start", TREND_SCOUT, 0, "", "", None, 0), At(f, "attempt", 1, 0)>>}
      [] f.stage = "attempt" ->
           \* one more delta, the end of the call, or the call raises
           {<<Event("agent_chunk", TREND_SCOUT, 0, "", "",
                    Some(<<Token("agent_chunk", f.chunks + 1, f.attempt)>>), f.attempt),
              At(f, "attempt", f.attempt, f.chunks + 1)>> :
              n \in IF f.chunks < MaxAttemptChunks THEN {1} ELSE {}}
           \cup {<<StatusEvent("agent_end", TREND_SCOUT, "completed", f.attempt),
                   At(f, "round", 1, 0)>>}
           \cup {IF f.attempt < cfg.retry_max_attempts
                 THEN <<Event("retry", "", 0, "", "", None, f.attempt),
                        At(f, "attempt", f.attempt + 1, 0)>>
                 ELSE <<StatusEvent("agent_error", TREND_SCOUT, "", f.attempt),
                        At(f, "exhausted", f.attempt, 0)>>}
      [] f.stage = "exhausted" ->
           {CASE cfg.degrade_mode = "fail" -> <<ErrorEvent, At(f, "failed", 1, 0)>>
              [] cfg.degrade_mode = "skip" ->
                   <<StatusEvent("agent_end", TREND_SCOUT, "skipped", f.attempt),
                     At(f, "round", 1, 0)>>
              [] OTHER -> RoundStarts(f)}
      [] f.stage = "round" -> {RoundStarts(f)}
      [] f.stage = "exchange" ->
           {<<Event("agent_challenge", "", 1, c, r, None, f.attempt),
              At(f, "challenge", f.attempt, 0)>>}
      [] f.stage = "challenge" ->
           {<<Event("agent_challenge_end", "", 1, c, r,
                    Some(<<Token("challenge", 1, f.attempt)>>), f.attempt),
              At(f, "challenged", f.attempt, 0)>>,
            StreamExchangeFails(f)}
      [] f.stage = "challenged" ->
           {<<Event("agent_respond", "", 1, r, c, None, f.attempt),
              At(f, "respond", f.attempt, 0)>>}
      [] f.stage = "respond" ->
           {<<Event("agent_respond_end", "", 1, r, c,
                    Some(<<Token("respond", 1, f.attempt)>>), f.attempt),
              [At(f, "round_end", 1, 0) EXCEPT !.exchange_record = "success"]>>,
            StreamExchangeFails(f)}
      [] f.stage = "round_end" -> {<<RoundEndEvent, At(f, "synthesizer", 1, 0)>>}
      [] f.stage = "synthesizer" ->
           {<<Event("agent_start", SYNTHESIZER, 0, "", "", None, 0), At(f, "report", 1, 0)>>}
      [] f.stage = "report" ->
           {<<StatusEvent("agent_end", SYNTHESIZER, status, 1), At(f, "end", 1, 0)>> :
              status \in {"completed", "degraded"}}
      [] f.stage = "end" ->
           {<<Event("orchestrator_end", "", 0, "", "", Some(<<Token("report", 0, 0)>>), 0),
              At(f, "ended", 1, 0)>>}
      [] OTHER -> {}

\* the stream is over, has failed, or the client was found gone
ExitStages == {"ended", "failed", "disconnected"}

Closed(stage) ==
    CASE stage = "ended" -> "closed_ended"
      [] stage = "failed" -> "closed_failed"
      [] OTHER -> "closed_disconnected"

ClosedStages == {Closed(stage) : stage \in ExitStages}

\* lines 298-310: no disconnect seen, the next event is pulled and handed on;
\* lines 330-377: the except blocks hand the error event
pull_event ==
    \E next \in StreamEvents(feed) : on_event(next[1], next[2])

\* lines 299-306: is_disconnected() answers true, the iterator is closed and
\* the loop left
observe_disconnect ==
    /\ stop_pc = "idle"
    /\ feed.stage \notin ExitStages \cup ClosedStages
    /\ feed' = [feed EXCEPT !.stage = "disconnected"]
    /\ UNCHANGED <<inputVars, calc, workflowVars, toolVars, throttleVars,
                   enabled, worker, config, agent_bufs, debate_ctx,
                   exchange_parts, q, stop_set, pg_closed, stop_pc, run_pc,
                   last_event, enqueue_calls, inserted, last_write, session_row,
                   overflowed>>

\* the finally: sink.close(), which with a worker begins stop()
close_sink ==
    /\ feed.stage \in ExitStages
    /\ stop_pc = "idle"
    /\ feed' = [feed EXCEPT !.stage = Closed(feed.stage)]
    /\ IF worker
       THEN /\ q' = IF Len(q) >= QueueMaxsize THEN q ELSE Append(q, StopOp)
            /\ stop_pc' = "join"
       ELSE UNCHANGED <<q, stop_pc>>
    /\ UNCHANGED <<inputVars, calc, workflowVars, toolVars, throttleVars,
                   enabled, worker, config, agent_bufs, debate_ctx,
                   exchange_parts, stop_set, pg_closed, run_pc,
                   last_event, enqueue_calls, inserted, last_write, session_row,
                   overflowed>>

\* events a caller may still hand to the sink once close() has returned
LateEvents == {ErrorEvent, Event("agent_start", TREND_SCOUT, 0, "", "", None, 0)}

on_event_closed ==
    /\ feed.stage \in ClosedStages
    /\ stop_pc \in {"idle", "done"}
    /\ \E e \in LateEvents : e # last_event /\ sink_on_event(e)
    /\ UNCHANGED feed

\* a session with one peer round without follow-up and two attempts a node
StreamRequests ==
    {r \in Requests : /\ r.debate_rounds = 1
                      /\ r.retry_max_attempts = MaxSinkAttempts
                      /\ r.retry_backoff_ms = 0
                      /\ r.degrade_mode \in DegradeModes
                      /\ ~ r.enable_followup
                      /\ ~ r.enable_websearch}

StreamStart ==
    /\ WorkflowInit({TRUE}, StreamRequests)
    /\ GuardrailInit(MaxCeiling, [num |-> 1, den |-> 2], 1)
    /\ RegistryInit
    /\ calc = NoCalc
    /\ SinkInit(BOOLEAN, {FALSE})
    /\ ThrottleInit

StreamNext ==
    \/ pull_event
    \/ observe_disconnect
    \/ close_sink
    \/ on_event_closed
    \/ run
    \/ stop_close

StreamSpec == StreamStart /\ [][StreamNext]_vars

\* sessions whose nodes have one attempt each
CloseRequests ==
    {r \in Requests : /\ r.debate_rounds = 1
                      /\ r.retry_max_attempts = 1
                      /\ r.retry_backoff_ms = 0
                      /\ r.degrade_mode \in {"fail", "partial"}
                      /\ ~ r.enable_followup
                      /\ ~ r.enable_websearch}

CloseStart ==
    /\ WorkflowInit({TRUE}, CloseRequests)
    /\ GuardrailInit(MaxCeiling, [num |-> 1, den |-> 2], 1)
    /\ RegistryInit
    /\ calc = NoCalc
    /\ SinkInit(BOOLEAN, {FALSE})
    /\ ThrottleInit

\* the finally of the generator runs whenever the loop has been left, and
\* join(timeout=3) returns
FairCloseSpec ==
    CloseStart /\ [][StreamNext]_vars /\ WF_vars(close_sink) /\ WF_vars(stop_close)

(***************************************************************************)
(* Properties.                                                             *)
(***************************************************************************)
IsPrefix(s, t) == Len(s) <= Len(t) /\ \A i \in 1..Len(s) : s[i] = t[i]

Events(name) == Count(stream, LAMBDA e : e.event = name)

HasEvent(name) == \E i \in 1..Len(stream) : stream[i].event = name

\* position of the first event of that name in the stream, 0 when there is none
FirstIndex(name) ==
    IF HasEvent(name)
    THEN CHOOSE i \in 1..Len(stream) :
            /\ stream[i].event = name
            /\ \A j \in 1..(i - 1) : stream[j].event # name
    ELSE 0

\* the phases a session with that many rounds goes through
ExpectedPhases(rounds) ==
    <<"init", "gather">>
    \o (IF rounds >= 1 THEN <<"debate_peer">> ELSE <<>>)
    \o (IF rounds = 2 THEN <<"debate_redteam">> ELSE <<>>)
    \o <<"synthesize", "complete">>

\* C1: the values taken by the session's phase form a prefix of
\* init, gather, (debate_peer when debate_rounds >= 1), (debate_redteam when
\* debate_rounds = 2), synthesize, complete: the phase never moves backwards,
\* skips no step and takes no further value after complete.
C1_PhaseSequence ==
    /\ phase = Last(phaseHist)
    /\ IsPrefix(phaseHist, ExpectedPhases(cfg.debate_rounds))

\* a two-round session that went through all six phases
C1_Witness ==
    /\ cfg.debate_rounds = 2
    /\ phase = "complete"
    /\ phaseHist = <<"init", "gather", "debate_peer", "debate_redteam",
                     "synthesize", "complete">>

\* the session reached orchestrator_end
Completed == HasEvent("orchestrator_end")

WorkerHasContent(a) ==
    \E i \in 1..Len(agent_results) :
        agent_results[i].agent_name = a /\ agent_results[i].content # ""

Agents == Workers \cup {SYNTHESIZER}

\* the events that name agent A as their agent, in the order they were written
AgentEvents(A) ==
    IF A \in Workers
    THEN wlog[A]
    ELSE SelectSeq(stream, LAMBDA e : "agent" \in DOMAIN e /\ e.agent = A)

Named(log, name) == SelectSeq(log, LAMBDA e : e.event = name)

IndexOf(log, name) == CHOOSE i \in 1..Len(log) : log[i].event = name

NodeReturned(A) == IF A \in Workers THEN wpc[A] = "returned" ELSE spc = "finish"

\* C3: every agent A (four workers, synthesizer) emits at most one
\* agent_start, at most one agent_error and at most one agent_end, none before
\* its agent_start; when both are emitted agent_error comes first and the
\* agent_end reports skipped (worker) or degraded (synthesizer); a node that has
\* returned has emitted at least one of them; the terminal events of a worker
\* carry an attempt of at most retry_max_attempts.
C3_TerminalEvents ==
    \A A \in Agents :
        LET log == AgentEvents(A)
            ends == Named(log, "agent_end")
            errs == Named(log, "agent_error")
        IN  /\ Len(Named(log, "agent_start")) <= 1
            /\ Len(ends) <= 1
            /\ Len(errs) <= 1
            /\ log # <<>> => log[1].event = "agent_start"
            /\ ends # <<>> =>
                 ends[1].status \in (IF A \in Workers THEN {"completed", "skipped"}
                                                      ELSE {"completed", "degraded"})
            /\ (ends # <<>> /\ errs # <<>>) =>
                 /\ IndexOf(log, "agent_error") < IndexOf(log, "agent_end")
                 /\ ends[1].status \in {"skipped", "degraded"}
            /\ (ends # <<>> /\ errs = <<>>) => ends[1].status = "completed"
            /\ NodeReturned(A) => (ends # <<>> \/ errs # <<>>)
            /\ A \in Workers =>
                 \A i \in 1..Len(log) :
                     log[i].event \in {"agent_end", "agent_error"} =>
                         log[i].attempt <= cfg.retry_max_attempts

\* a worker that failed its second and last attempt under skip mode and wrote
\* agent_error followed by agent_end(skipped)
C3_Witness ==
    \E a \in Workers :
        /\ wpc[a] = "returned"
        /\ cfg.degrade_mode = "skip"
        /\ Len(Named(wlog[a], "agent_error")) = 1
        /\ Len(Named(wlog[a], "agent_end")) = 1
        /\ Named(wlog[a], "agent_end")[1].attempt = 2

\* C3 as stated: no agent emits both agent_end and agent_error
C3_AsStated ==
    \A A \in Agents :
        ~ ( /\ Named(AgentEvents(A), "agent_end") # <<>>
            /\ Named(AgentEvents(A), "agent_error") # <<>> )

\* every place events are written to: the four worker branches and the
\* sequential nodes
Logs == {wlog[a] : a \in Workers} \cup {stream}

ToolStartsCarryId ==
    \A log \in Logs : \A i \in 1..Len(log) :
        log[i].event = "tool_start" => "invocation_id" \in DOMAIN log[i]

\* pairing by agent and order, the only pairing the events allow: every
\* tool_start is followed, before the same agent's next tool_start, by a
\* tool_end or tool_error of that agent
ToolStartsMatched ==
    \A log \in Logs : \A i \in 1..Len(log) :
        log[i].event = "tool_start" =>
            \E j \in (i + 1)..Len(log) :
                /\ log[j].event \in {"tool_end", "tool_error"}
                /\ log[j].agent = log[i].agent
                /\ \A k \in (i + 1)..(j - 1) : log[k].event # "tool_start"

\* C4: once the stream has ended, every tool_start emitted in the session
\* carries an invocation id and is followed by exactly one tool_end or
\* tool_error for it, whatever the LLM stream did.
C4_AsStated == closed => (ToolStartsCarryId /\ ToolStartsMatched)

WorkerFailed(a) == Named(wlog[a], "agent_error") # <<>>

DegradedExchange(x) == x.followup_content = "degraded: exchange failed"

\* C5: no stream holds both orchestrator_end and error, and none holds two
\* error events; an error event is the last event of the stream. An exception
\* leaves the graph only under degrade_mode = fail, and then the stream ends
\* with the error event, without orchestrator_end and without an event of a
\* node after the failing one; a session that completes under fail has had no
\* worker, exchange or synthesizer fail on every attempt.
C5_FailEndsWithError ==
    /\ ~ (HasEvent("orchestrator_end") /\ HasEvent("error"))
    /\ Events("error") <= 1
    /\ HasEvent("error") => (closed /\ Last(stream).event = "error")
    /\ raised => /\ cfg.degrade_mode = "fail"
                 /\ ~ Completed
                 /\ ~ closed => ENABLED stream_error
                 /\ closed => (Events("error") = 1 /\ Last(stream).event = "error")
                 /\ (\E a \in Workers : wpc[a] = "raised") =>
                        /\ ~ HasEvent("gather_complete")
                        /\ ~ HasEvent("debate_round_start")
                        /\ AgentEvents(SYNTHESIZER) = <<>>
                 /\ node \in DebateNodes =>
                        /\ Events("debate_round_end") = DebateRound - 1
                        /\ AgentEvents(SYNTHESIZER) = <<>>
                 /\ node = "synthesizer" =>
                        Named(AgentEvents(SYNTHESIZER), "agent_end") = <<>>
    /\ (cfg.degrade_mode = "fail" /\ Completed) =>
            /\ \A a \in Workers : ~ WorkerFailed(a) /\ WorkerHasContent(a)
            /\ Len(debate_exchanges) = 4 * cfg.debate_rounds
            /\ \A i \in 1..Len(debate_exchanges) : ~ DegradedExchange(debate_exchanges[i])
            /\ sstatus = "completed"

\* a fail-mode session whose red-team exchange failed its second and last
\* attempt: the stream has ended with the error event
C5_Witness ==
    /\ cfg.degrade_mode = "fail"
    /\ raised
    /\ closed
    /\ node = "debate_redteam"
    /\ xattempt = 2
    /\ Last(stream).event = "error"

\* C6: a worker that failed on every attempt returns nothing under skip and
\* exactly one entry with empty content and the error under partial; a worker
\* that succeeded returns exactly one entry with content and no error; once
\* every branch has returned the barrier can run, and after it agent_results
\* holds for each worker exactly what that worker returned.
C6_DegradedWorkerEntries ==
    cfg.degrade_mode \in {"skip", "partial"} =>
        /\ ~ raised
        /\ \A a \in Workers :
             /\ (wpc[a] = "returned" /\ WorkerFailed(a)) =>
                  wret[a] = (IF cfg.degrade_mode = "skip"
                             THEN <<>>
                             ELSE <<[agent_name |-> a, content |-> "", error |-> "error"]>>)
             /\ (wpc[a] = "returned" /\ ~ WorkerFailed(a)) =>
                  /\ Len(wret[a]) = 1
                  /\ wret[a][1].agent_name = a
                  /\ wret[a][1].content # ""
                  /\ wret[a][1].error = "none"
             /\ HasEvent("gather_complete") =>
                  SelectSeq(agent_results, LAMBDA r : r.agent_name = a) = wret[a]
        /\ (node = "workers" /\ ~ closed /\ \A a \in Workers : wpc[a] = "returned")
               => ENABLED gather_node

\* partial mode, past the barrier: one worker failed both attempts and left an
\* empty entry with its error, the three others left their content
C6_Witness ==
    /\ cfg.degrade_mode = "partial"
    /\ HasEvent("gather_complete")
    /\ Len(agent_results) = 4
    /\ \E a \in Workers :
         /\ WorkerFailed(a)
         /\ Named(wlog[a], "agent_error")[1].attempt = 2
         /\ \E i \in 1..4 : agent_results[i] = [agent_name |-> a, content |-> "", error |-> "error"]
         /\ \A b \in Workers \ {a} : WorkerHasContent(b)

SynthesizerReached == AgentEvents(SYNTHESIZER) # <<>>

ExchangeEventNames ==
    {"agent_challenge", "agent_challenge_end", "agent_respond", "agent_respond_end",
     "agent_followup", "agent_followup_end"}

\* events written by the debate nodes and the synthesizer node: everything
\* after the barrier but the stream's own error event
IsLaterNodeEvent(e) ==
    \/ e.event \in ExchangeEventNames \cup {"debate_round_start", "debate_round_end",
                                            "orchestrator_end"}
    \/ "context" \in DOMAIN e
    \/ e.event = "retry" /\ e.target_type = "debate_exchange"
    \/ "agent" \in DOMAIN e /\ e.agent = SYNTHESIZER
    \/ e.event = "retry" /\ e.target_id = SYNTHESIZER

WorkerTerminated(a) ==
    \E i \in 1..Len(wlog[a]) : wlog[a][i].event \in {"agent_end", "agent_error"}

RoundStartIndex(r) ==
    IF \E i \in 1..Len(stream) :
          stream[i].event = "debate_round_start" /\ stream[i].round_number = r
    THEN CHOOSE i \in 1..Len(stream) :
          stream[i].event = "debate_round_start" /\ stream[i].round_number = r
    ELSE 0

RoundEndIndex(r) ==
    IF \E i \in 1..Len(stream) :
          stream[i].event = "debate_round_end" /\ stream[i].round_number = r
    THEN CHOOSE i \in 1..Len(stream) :
          stream[i].event = "debate_round_end" /\ stream[i].round_number = r
    ELSE 0

RoundEvents(r, name) ==
    Count(stream, LAMBDA e : e.event = name /\ e.round_number = r)

\* the event was written by an exchange of a round
IsExchangeEvent(e) ==
    \/ e.event \in ExchangeEventNames
    \/ "context" \in DOMAIN e
    \/ e.event = "retry" /\ e.target_type = "debate_exchange"

\* the round an exchange event at position i belongs to: the one started
\* last, given the positions s1 and s2 of the two debate_round_start events
RoundOf(i, s1, s2) ==
    IF s2 # 0 /\ s2 < i THEN 2
    ELSE IF s1 # 0 /\ s1 < i THEN 1
    ELSE 0

\* C10: with debate_rounds clamped to 0..2, the peer round starts only when
\* it is at least 1 and the red-team round only when it is 2 and the peer
\* round has ended; no round starts or ends twice; every exchange event lies
\* between its round's debate_round_start and debate_round_end; the
\* synthesizer starts only after gather_complete and after the
\* debate_round_end of each of the debate_rounds rounds; in a completed
\* session exactly the first debate_rounds rounds have run.
C10_RoundRouting ==
    LET s1 == RoundStartIndex(1)
        s2 == RoundStartIndex(2)
        e1 == RoundEndIndex(1)
        e2 == RoundEndIndex(2)
        start == <<s1, s2>>
        end == <<e1, e2>>
        g == FirstIndex("gather_complete")
    IN  /\ cfg.debate_rounds \in 0..2
        /\ \A r \in 1..2 :
             /\ RoundEvents(r, "debate_round_start") <= 1
             /\ RoundEvents(r, "debate_round_end") <= 1
             /\ start[r] # 0 => cfg.debate_rounds >= r
             /\ end[r] # 0 => (start[r] # 0 /\ start[r] < end[r])
        /\ s2 # 0 => (e1 # 0 /\ e1 < s2)
        /\ \A i \in 1..Len(stream) :
             IsExchangeEvent(stream[i]) =>
                LET r == RoundOf(i, s1, s2)
                IN  /\ r # 0
                    /\ "round_number" \in DOMAIN stream[i] => stream[i].round_number = r
                    /\ end[r] # 0 => i < end[r]
        /\ SynthesizerReached =>
             LET s == FirstIndex("agent_start")
             IN  /\ g # 0
                 /\ g < s
                 /\ \A r \in 1..cfg.debate_rounds : end[r] # 0 /\ end[r] < s
                 /\ cfg.debate_rounds = 0 => s = g + 1
        /\ Completed =>
             \A r \in 1..2 : (end[r] # 0) <=> (cfg.debate_rounds >= r)

\* a completed two-round session: both rounds ran, in order, with exchange
\* events in each, and the synthesizer started after the red-team round ended
C10_Witness ==
    /\ Completed
    /\ cfg.debate_rounds = 2
    /\ has_factory
    /\ RoundEndIndex(1) < RoundStartIndex(2)
    /\ RoundEndIndex(2) < FirstIndex("agent_start")
    /\ \E i \in 1..Len(stream) :
         IsExchangeEvent(stream[i]) /\ RoundStartIndex(1) < i /\ i < RoundEndIndex(1)
    /\ \E i \in 1..Len(stream) :
         IsExchangeEvent(stream[i]) /\ RoundStartIndex(2) < i /\ i < RoundEndIndex(2)

IsDebateRetry(e) == e.event = "retry" /\ e.target_type = "debate_exchange"

\* the step events and retry events of the exchanges, in emission order
ExchangeSteps ==
    SelectSeq(stream, LAMBDA e : e.event \in ExchangeEventNames \/ IsDebateRetry(e))

\* (round, challenger, responder) of the exchange an event belongs to
ExchangeKey(e) ==
    IF IsDebateRetry(e) THEN e.target_id
    ELSE IF e.event \in {"agent_respond", "agent_respond_end"}
    THEN <<e.round_number, e.to_agent, e.from_agent>>
    ELSE <<e.round_number, e.from_agent, e.to_agent>>

SameAttempt(e, f) == ExchangeKey(e) = ExchangeKey(f) /\ e.attempt = f.attempt

\* the step event that must directly precede each step event of an attempt
StepBefore(name) ==
    CASE name = "agent_challenge_end" -> "agent_challenge"
      [] name = "agent_respond" -> "agent_challenge_end"
      [] name = "agent_respond_end" -> "agent_respond"
      [] name = "agent_followup" -> "agent_respond_end"
      [] name = "agent_followup_end" -> "agent_followup"

\* the step event that announces the call a tool event was written in
StartOfContext(prefix) ==
    CASE prefix = "challenge" -> "agent_challenge"
      [] prefix = "respond" -> "agent_respond"
      [] prefix = "followup" -> "agent_followup"

\* C11: the step events of one attempt of an exchange come in the order
\* agent_challenge, agent_challenge_end, agent_respond, agent_respond_end and,
\* exactly when enable_followup is set, agent_followup, agent_followup_end, all
\* with that exchange's key and attempt and with nothing of another exchange
\* between them; an attempt is cut only at a call (after agent_challenge,
\* agent_respond or agent_followup); a retry event of attempt k follows the cut
\* attempt k and is followed by agent_challenge with attempt k + 1 of the same
\* exchange; an agent_challenge with attempt 1 follows no retry event.
C11_ExchangeStepOrder ==
    LET D == ExchangeSteps
    IN  /\ \A i \in 1..Len(D) :
             LET e == D[i]
             IN  /\ e.event \in ExchangeEventNames \ {"agent_challenge"} =>
                      /\ i > 1
                      /\ D[i - 1].event = StepBefore(e.event)
                      /\ SameAttempt(D[i - 1], e)
                 /\ e.event \in {"agent_followup", "agent_followup_end"} =>
                      cfg.enable_followup
                 /\ e.event = "agent_challenge" =>
                      IF e.attempt = 1
                      THEN i > 1 => ~ IsDebateRetry(D[i - 1])
                      ELSE /\ i > 1
                           /\ IsDebateRetry(D[i - 1])
                           /\ D[i - 1].attempt = e.attempt - 1
                           /\ ExchangeKey(D[i - 1]) = ExchangeKey(e)
                 /\ IsDebateRetry(e) =>
                      /\ i > 1
                      /\ D[i - 1].event \in {"agent_challenge", "agent_respond",
                                             "agent_followup"}
                      /\ SameAttempt(D[i - 1], e)
                 /\ e.event = "agent_challenge_end" =>
                      (i < Len(D) /\ D[i + 1].event = "agent_respond")
                 /\ (e.event = "agent_respond_end" /\ cfg.enable_followup) =>
                      (i < Len(D) /\ D[i + 1].event = "agent_followup")
                 /\ (e.event = "agent_respond_end" /\ i < Len(D)) =>
                      (D[i + 1].event = "agent_followup" <=> cfg.enable_followup)
        /\ \A i \in 1..Len(stream) :
             "context" \in DOMAIN stream[i] =>
                /\ i > 1
                /\ \/ /\ "context" \in DOMAIN stream[i - 1]
                      /\ stream[i - 1].context = stream[i].context
                      /\ stream[i - 1].agent = stream[i].agent
                   \/ /\ stream[i - 1].event \in ExchangeEventNames
                      /\ stream[i - 1].event = StartOfContext(stream[i].context)
                      /\ stream[i - 1].from_agent = stream[i].agent

\* an exchange with follow-up whose first attempt was cut at the respond call
\* and whose second attempt ran all six steps
C11_Witness ==
    \E i \in 1..Len(ExchangeSteps) :
        /\ i + 9 <= Len(ExchangeSteps)
        /\ [k \in 1..10 |-> ExchangeSteps[i + k - 1].event] =
             <<"agent_challenge", "agent_challenge_end", "agent_respond", "retry",
               "agent_challenge", "agent_challenge_end", "agent_respond",
               "agent_respond_end", "agent_followup", "agent_followup_end">>
        /\ ExchangeSteps[i].attempt = 1
        /\ ExchangeSteps[i + 9].attempt = 2

\* the step event that closes a call announced by `name`
StepAfter(name) ==
    CASE name = "agent_challenge" -> "agent_challenge_end"
      [] name = "agent_respond" -> "agent_respond_end"
      [] name = "agent_followup" -> "agent_followup_end"

\* the exchanges whose last allowed attempt was cut at a call
ExhaustedExchanges ==
    LET D == ExchangeSteps
    IN  {ExchangeKey(D[i]) : i \in
           {j \in 1..Len(D) :
              /\ D[j].event \in {"agent_challenge", "agent_respond", "agent_followup"}
              /\ D[j].attempt = cfg.retry_max_attempts
              /\ (j = Len(D) \/ D[j + 1].event # StepAfter(D[j].event))}}

\* the records an exchange has left, in the node's list or in the state
ExchangeRecords(k) ==
    SelectSeq(debate_exchanges \o exchanges,
              LAMBDA x : <<x.round_number, x.challenger, x.responder>> = k)

AllExchangeKeys ==
    {<<r, RoundExchanges(r)[i][1], RoundExchanges(r)[i][2]>> :
        r \in 1..2, i \in 1..4}

\* C12: under skip and partial an exchange that failed on every attempt
\* raises nothing; under partial it leaves exactly one record, with empty
\* challenge and response, revised = false and the error in the follow-up
\* slot; under skip it leaves none; no other exchange leaves such a record;
\* the node goes on to the remaining exchanges, so that when a round has
\* ended each of its exchanges whose responder has content has left its
\* record unless it was dropped under skip, and exchanges_count counts them.
C12_ExhaustedExchange ==
    cfg.degrade_mode \in {"skip", "partial"} =>
        LET X == ExhaustedExchanges
        IN  /\ ~ raised
            /\ \A k \in AllExchangeKeys :
                 LET recs == ExchangeRecords(k)
                 IN  /\ Len(recs) <= 1
                     /\ (k \in X /\ cfg.degrade_mode = "partial") =>
                          recs = <<[round_number |-> k[1], debate_type |-> DebateType(k[1]),
                                    challenger |-> k[2], responder |-> k[3],
                                    challenge_content |-> "", response_content |-> "",
                                    followup_content |-> "degraded: exchange failed",
                                    revised |-> FALSE]>>
                     /\ (k \in X /\ cfg.degrade_mode = "skip") => recs = <<>>
                     /\ (recs # <<>> /\ DegradedExchange(recs[1])) => k \in X
                     /\ (RoundEndIndex(k[1]) # 0 /\ has_factory) =>
                          ((recs # <<>>) <=>
                             /\ ResponderContent(agent_results, k[3]) # ""
                             /\ ~ (k \in X /\ cfg.degrade_mode = "skip"))
            /\ \A r \in 1..2 :
                 RoundEndIndex(r) # 0 =>
                    stream[RoundEndIndex(r)].exchanges_count =
                       Len(SelectSeq(debate_exchanges, LAMBDA x : x.round_number = r))
            /\ (node \in DebateNodes /\ ~ closed
                  /\ xi \in 1..Len(RoundExchanges(DebateRound)))
                 => ENABLED execute_debate_exchange

\* partial mode: the first red-team exchange failed both attempts and left
\* the synthetic record, the three others ran and left theirs
C12_Witness ==
    /\ cfg.degrade_mode = "partial"
    /\ cfg.retry_max_attempts = 2
    /\ RoundEndIndex(2) # 0
    /\ <<2, AGENT_DEBATE_CHALLENGER, TREND_SCOUT>> \in ExhaustedExchanges
    /\ Len(debate_exchanges) = 8
    /\ DegradedExchange(debate_exchanges[5])
    /\ \A i \in 6..8 : ~ DegradedExchange(debate_exchanges[i])

UpTo(n) == [i \in 1..n |-> i]

Attempts(log) == [i \in 1..Len(log) |-> log[i].attempt]

\* agent_challenge (the start of an attempt) and retry events of exchange k
ExchangeAttemptMarks(k) ==
    SelectSeq(ExchangeSteps,
              LAMBDA e : (e.event = "agent_challenge" \/ IsDebateRetry(e))
                         /\ ExchangeKey(e) = k)

\* challenge 1, retry 1, challenge 2, retry 2, ..., challenge n
AlternatingMarks(n) ==
    [i \in 1..(2 * n - 1) |->
        <<IF i % 2 = 1 THEN "agent_challenge" ELSE "retry", (i + 1) \div 2>>]

SynthesizerRetries ==
    SelectSeq(stream, LAMBDA e : e.event = "retry" /\ e.target_id = SYNTHESIZER)

\* every attempt of the synthesizer agent failed
SynthesizerExhausted ==
    \/ raised /\ node = "synthesizer"
    \/ spc = "finish" /\ sstatus = "degraded" /\ has_worker_content(agent_results)

SmokePartialScenario ==
    /\ has_factory
    /\ cfg.retry_max_attempts = 2
    /\ cfg.retry_backoff_ms = 0
    /\ cfg.degrade_mode = "partial"
    /\ WorkerFailed(TREND_SCOUT)

\* C14: with trend_scout failing every attempt, retry_max_attempts = 2,
\* retry_backoff_ms = 0 and degrade_mode = partial, the events of trend_scout
\* hold exactly one retry event, with target_type = agent, target_id =
\* trend_scout, attempt = 1, max_attempts = 2 and backoff_ms = 0, followed by
\* agent_error(trend_scout) with attempt = 2.
C14_SmokeRetryEvents ==
    SmokePartialScenario =>
        LET log == wlog[TREND_SCOUT]
            retries == Named(log, "retry")
        IN  /\ retries = <<[event |-> "retry", target_type |-> "agent",
                            target_id |-> TREND_SCOUT, attempt |-> 1,
                            max_attempts |-> 2, backoff_ms |-> 0]>>
            /\ IndexOf(log, "retry") < IndexOf(log, "agent_error")
            /\ Named(log, "agent_error")[1].attempt = 2
            /\ Named(log, "agent_end") = <<>>

\* the scenario has run to the end: the session completed with trend_scout's
\* empty entry among four
C14_Witness ==
    /\ SmokePartialScenario
    /\ cfg.debate_rounds = 0
    /\ Completed
    /\ Len(agent_results) = 4
    /\ \A a \in Workers \ {TREND_SCOUT} : ~ WorkerFailed(a)

\* C14 as stated: in that scenario the stream holds two retry events
C14_AsStated ==
    SmokePartialScenario => Len(Named(wlog[TREND_SCOUT], "retry")) = 2

\* the guardrail_triggered events written so far
GuardrailEvents ==
    {e \in BagToSet(tool_events) : e.event = "guardrail_triggered"}

\* C15: for every session id, the "" of unknown invocations included, at most
\* one guardrail_triggered event is ever written, whatever end_invocation and
\* error_invocation calls are made and however the threads making them
\* interleave after the threshold has been crossed.  (The events are counted by
\* their session_id: the event of session "" goes to the writer of whichever
\* caller finished an unknown invocation first.)
C15_GuardrailOnce ==
    \A e \in GuardrailEvents :
        /\ CopiesIn(e, tool_events) = 1
        /\ \A f \in GuardrailEvents : f.session_id = e.session_id => f = e

\* the event of a session is written and another thread, which finished an
\* invocation of the same session, has been told to trigger too
C15_Witness ==
    \E e \in GuardrailEvents :
        \E t \in Threads : /\ threads[t].pc = "mark"
                           /\ threads[t].session_id = e.session_id
                           /\ e.session_id \in Sessions

\* the trip condition, in the words of the specification
TripCondition(stats) ==
    \/ stats.estimated_cost_usd > max_estimated_cost_usd
    \/ /\ stats.total_calls >= min_calls_for_error_rate
       /\ stats.error_calls * max_error_rate.den
            > max_error_rate.num * stats.total_calls

\* thread t leaves ToolGuardrail.evaluate in this step
Evaluates(t) == threads[t].pc = "evaluate" /\ threads'[t].pc # "evaluate"

\* thread t is inside _apply_guardrail for session s and takes this step
ActsFor(t, s) ==
    /\ threads[t] # threads'[t]
    /\ threads[t].pc \in {"record", "evaluate"}
    /\ threads[t].session_id = s

C16_Step ==
    /\ \A t \in Threads :
          Evaluates(t) =>
              LET s == threads[t].session_id
                  trips == TripCondition(session_stats[s])
              IN  /\ (threads'[t].pc = "mark") <=> trips
                  /\ (s \in tripped') <=> (trips \/ s \in tripped)
    /\ \A s \in AllSessions :
          s \in tripped =>
              /\ s \in tripped'
              /\ \A requested \in BOOLEAN :
                    /\ ~ should_enable_websearch(s, requested)
                    /\ ~ should_enable_websearch(s, requested)'
    /\ \A s \in AllSessions :
          \/ /\ session_stats'[s] = session_stats[s]
             /\ (s \in disabled_sessions') <=> (s \in disabled_sessions)
          \/ \E t \in Threads : ActsFor(t, s)

\* C16: when evaluate is reached after an invocation was recorded, it reports a
\* trip exactly when the session's cumulative cost is above the ceiling, or its
\* calls are at least min_calls_for_error_rate and error_calls / total_calls is
\* above the error-rate ceiling; a session that has tripped stays tripped and
\* should_enable_websearch is false for it whatever is requested and whatever
\* its counters become; and a step changes the counters and the disabled flag
\* of no session but the one whose invocation the stepping thread records.
C16_TripAndDisable == [][C16_Step]_vars

\* a session tripped on its error rate and a later success brought the rate
\* back to the ceiling, while the other session is still allowed to search
C16_Witness ==
    /\ "s1" \in tripped
    /\ session_stats["s1"].total_calls = 2
    /\ ~ TripCondition(session_stats["s1"])
    /\ ~ should_enable_websearch("s1", TRUE)
    /\ should_enable_websearch("s2", TRUE)

\* C17 as stated: the flag passed to create_response_stream_v2 is the agent's
\* default AND the session's enable_websearch AND the guardrail's allowance at
\* the time of the call
C17_AsStated ==
    \A c \in llm_calls :
        c.use_websearch <=> /\ AgentUseWebsearch(c.agent)
                            /\ cfg.enable_websearch
                            /\ ~ c.disabled

\* C18 as stated: between any two adaptive_concurrency events with mode =
\* degraded of the stream there is one with mode = recovered
C18_AsStated ==
    \A i, j \in 1..Len(tstream) :
        (i < j /\ tstream[i].mode = "degraded" /\ tstream[j].mode = "degraded")
            => \E k \in (i + 1)..(j - 1) : tstream[k].mode = "recovered"

\* caller c records the outcome of its call in this step
Records(c) == callers[c].pc = "released" /\ callers'[c].pc = "idle"

Shrinks ==
    /\ adaptive_concurrency_limit = ADAPTIVE_DEFAULT_LIMIT
    /\ adaptive_concurrency_limit' = ADAPTIVE_REDUCED_LIMIT

Recovers ==
    /\ adaptive_concurrency_limit = ADAPTIVE_REDUCED_LIMIT
    /\ adaptive_concurrency_limit' = ADAPTIVE_DEFAULT_LIMIT

C19_Step ==
    /\ adaptive_concurrency_limit' \in {ADAPTIVE_DEFAULT_LIMIT, ADAPTIVE_REDUCED_LIMIT}
    /\ (\A c \in Callers : ~ Records(c)) =>
          UNCHANGED <<adaptive_concurrency_limit, adaptive_recover_after_ts>>
    /\ \A c \in Callers :
          Records(c) =>
              /\ Shrinks <=> /\ adaptive_concurrency_limit = ADAPTIVE_DEFAULT_LIMIT
                             /\ OutcomeKind(callers[c]) = "connection"
                             /\ outcome_run'.kind = "connection"
                             /\ outcome_run'.len >= ADAPTIVE_FAIL_THRESHOLD
              /\ IF Shrinks
                 THEN adaptive_recover_after_ts' = now_ts + ADAPTIVE_REDUCED_WINDOW_SEC
                 ELSE UNCHANGED adaptive_recover_after_ts
              /\ Recovers <=> /\ adaptive_concurrency_limit = ADAPTIVE_REDUCED_LIMIT
                              /\ OutcomeKind(callers[c]) = "success"
                              /\ now_ts >= adaptive_recover_after_ts
                              /\ outcome_run'.kind = "success"
                              /\ outcome_run'.len >= ADAPTIVE_RECOVERY_SUCCESS_STREAK

\* C19: the width is always 4 or 2 and changes only when an outcome is
\* recorded: from 4 to 2 exactly when a connection-like failure is recorded at
\* width 4 that makes the run of consecutive connection-like failures at least 4
\* long (recovery-not-before then becomes now + 120 s, and changes at no other
\* time), and from 2 to 4 exactly when a success is recorded at width 2 with
\* now >= recovery-not-before that makes the run of consecutive successes at
\* least 6 long.  The runs are counted from the recorded outcomes themselves: a
\* run ends at the first outcome of another kind.
C19_WidthChanges == [][C19_Step]_vars

\* four connection-like failures shrank the width, and six successes with the
\* cooldown over restored it: one degraded event, then one recovered event
C19_Witness ==
    /\ adaptive_concurrency_limit = ADAPTIVE_DEFAULT_LIMIT
    /\ outcome_run = [kind |-> "success", len |-> ADAPTIVE_RECOVERY_SUCCESS_STREAK]
    /\ now_ts >= adaptive_recover_after_ts
    /\ adaptive_recover_after_ts >= ADAPTIVE_REDUCED_WINDOW_SEC
    /\ Len(tstream) = 2
    /\ tstream[1].mode = "degraded"
    /\ tstream[2].mode = "recovered"

\* caller c records a failure whose text is not connection-like in this step
RecordsOtherFailure(c) == Records(c) /\ OutcomeKind(callers[c]) = "other"

C20_Step ==
    \A c \in Callers :
        RecordsOtherFailure(c) =>
            /\ UNCHANGED <<adaptive_concurrency_limit, adaptive_recover_after_ts,
                           tstream>>
            /\ adaptive_conn_fail_streak' = 0
            /\ adaptive_success_streak' = 0

\* C20: recording a failure whose message is not connection-like changes
\* neither the width nor the recovery-not-before timestamp and writes no
\* adaptive_concurrency event; it does not advance the consecutive
\* connection-like failure count but resets it to 0, as a success does, and it
\* resets the consecutive success count to 0.
C20_OtherFailureEffect == [][C20_Step]_vars

\* a failure that is not connection-like is the outcome recorded last, at the
\* default width: the count of connection-like failures stands at 0
C20_Witness ==
    /\ outcome_run = [kind |-> "other", len |-> 1]
    /\ adaptive_conn_fail_streak = 0
    /\ adaptive_concurrency_limit = ADAPTIVE_DEFAULT_LIMIT
    /\ \A c \in Callers : callers[c].pc = "idle"

C20_AsStatedStep ==
    \A c \in Callers :
        RecordsOtherFailure(c) =>
            UNCHANGED <<adaptive_concurrency_limit, adaptive_recover_after_ts,
                        adaptive_conn_fail_streak>>

\* C20 as stated: such a failure changes neither the width nor the
\* recovery-not-before timestamp nor the consecutive connection-like failure count
C20_AsStated == [][C20_AsStatedStep]_vars

\* the calling threads whose LLM stream is running
Streaming == {c \in DOMAIN callers : callers[c].pc = "held"}

\* thread c is granted a slot in this step and starts its LLM stream
Granted(c) == callers[c].pc = "idle" /\ callers'[c].pc = "held"

C21_Step ==
    /\ adaptive_inflight_calls = Cardinality(Streaming)
    /\ adaptive_inflight_calls' = Cardinality(Streaming)'
    /\ adaptive_inflight_calls' <= ADAPTIVE_DEFAULT_LIMIT
    /\ \A c \in DOMAIN callers :
          Granted(c) => adaptive_inflight_calls < adaptive_concurrency_limit

\* C21: every thread whose LLM stream is running holds a slot (the in-flight
\* count is the number of running streams); a slot is granted only in a state
\* whose in-flight count is below the width of that moment, so that with five
\* threads calling at most 4 streams run at once, and after a shrink to 2 no
\* thread is granted a slot while 2 or more streams are still running.
C21_SlotGate == [][C21_Step]_vars

\* the width was halved while three streams were running: the two idle threads
\* are not served
C21_Witness ==
    /\ adaptive_concurrency_limit = ADAPTIVE_REDUCED_LIMIT
    /\ adaptive_inflight_calls = 3
    /\ Cardinality({c \in DOMAIN callers : callers[c].pc = "idle"}) = 2
    /\ ~ ENABLED (\E c \in SlotCallers : acquire_ark_slot(c))


\* a retry branch has computed, reported and slept a delay
Backoffs == calc.fn \in {"agent", "debate_exchange"}

ExponentialTerm == calc.base_ms * (2 ^ (calc.attempt - 1))

\* hash(t + ":" + k) mod 41
JitterShare == jitter_bucket(calc.key_sum, calc.attempt)

C23_AsStated ==
    Backoffs =>
        /\ calc.base_ms <= 0 => calc.backoff_ms = 0
        /\ calc.base_ms > 0 =>
              /\ JitterShare \in 0..40
              /\ calc.backoff_ms
                   = ExponentialTerm + (calc.base_ms * JitterShare) \div 100
        /\ calc.slept_ms = calc.backoff_ms


EntriesOf(results) == {results[i] : i \in 1..Len(results)}

DroppedBySkip(a) == cfg.degrade_mode = "skip" /\ WorkerFailed(a)

\* C24: after the gather barrier agent_results holds exactly one entry for
\* each worker that skip did not drop and none for a dropped one (no worker
\* twice, no returned entry lost), and its set of entries is the union of
\* what the four branches returned, whatever order the branches ran and
\* completed in.
C24_OneEntryPerWorker ==
    HasEvent("gather_complete") =>
        /\ \A a \in Workers :
              Count(agent_results, LAMBDA r : r.agent_name = a)
                 = (IF DroppedBySkip(a) THEN 0 ELSE 1)
        /\ \A i \in 1..Len(agent_results) : agent_results[i].agent_name \in Workers
        /\ EntriesOf(agent_results) = UNION {EntriesOf(wret[a]) : a \in Workers}
        /\ Len(agent_results)
             = Cardinality({a \in Workers : ~ DroppedBySkip(a)})

\* skip mode, past the barrier: the first dispatched worker was dropped, the
\* three entries are those of the other workers
C24_Witness ==
    /\ cfg.degrade_mode = "skip"
    /\ HasEvent("gather_complete")
    /\ DroppedBySkip(TREND_SCOUT)
    /\ Len(agent_results) = 3
    /\ {agent_results[i].agent_name : i \in 1..Len(agent_results)}
         = Workers \ {TREND_SCOUT}


\* on_event has run in this step
HandsEvent == feed' # feed

ChunkEventNames ==
    {"agent_chunk", "agent_thinking", "challenge_chunk", "respond_chunk",
     "followup_chunk"}

CallsOf(kind) == SelectSeq(enqueue_calls, LAMBDA c : c.op.kind = kind)

BufferedTexts(bufs) ==
    LET Sizes(a) == Len(bufs[a].content) + Len(bufs[a].thinking)
    IN  [a \in DOMAIN bufs |-> Sizes(a)]

C25_Step ==
    (HandsEvent /\ enabled /\ worker) =>
        LET e == last_event'
            made == enqueue_calls'
        IN  /\ e.event \notin ChunkEventNames =>
                 /\ made # <<>>
                 /\ made[1].op.kind = "workflow_event"
                 /\ made[1].op.args.event_type = e.event
                 /\ made[1].op.args.payload = e
                 /\ made[1].queued = (Len(q) < QueueMaxsize)
                 /\ \A i \in 2..Len(made) : made[i].op.kind # "workflow_event"
            /\ e.event \in ChunkEventNames =>
                 /\ made = <<>>
                 /\ q' = q
                 /\ exchange_parts' = exchange_parts
                 /\ e.agent \in DOMAIN agent_bufs'
                 /\ \A a \in DOMAIN agent_bufs :
                       /\ IsPrefix(agent_bufs[a].content, agent_bufs'[a].content)
                       /\ IsPrefix(agent_bufs[a].thinking, agent_bufs'[a].thinking)
                 /\ BufferedTexts(agent_bufs')[e.agent]
                      = 1 + (IF e.agent \in DOMAIN agent_bufs
                             THEN BufferedTexts(agent_bufs)[e.agent] ELSE 0)

FlushEvent ==
    \/ last_event.event = "agent_respond_end" /\ ~ config.enable_followup
    \/ last_event.event = "agent_followup_end"

\* C26: on_event asks for a debate-exchange insert exactly when the event is
\* agent_respond_end and follow-up is disabled for the session, or
\* agent_followup_end; the row's key is (round, challenger, responder), read
\* from a respond event by swapping from_agent and to_agent; no key is asked
\* for twice; and the row's challenge, response and follow-up texts are those
\* of the attempt that the event closes (no follow-up text when follow-up is
\* disabled), whatever earlier attempts of the exchange had left behind.
C26_ExchangeInsert ==
    enabled =>
        /\ Len(CallsOf("insert_debate")) = (IF FlushEvent THEN 1 ELSE 0)
        /\ \A key \in BagToSet(inserted) : CopiesIn(key, inserted) = 1
        /\ FlushEvent =>
             LET row == CallsOf("insert_debate")[1].op.args
                 e == last_event
                 swapped == e.event = "agent_respond_end"
             IN  /\ row.round_number = e.round_number
                 /\ row.challenger = (IF swapped THEN e.to_agent ELSE e.from_agent)
                 /\ row.responder = (IF swapped THEN e.from_agent ELSE e.to_agent)
                 /\ <<row.round_number, row.challenger, row.responder>>
                       \in BagToSet(inserted)
                 /\ \E i \in 1..MaxSinkExchanges :
                       /\ row.challenger = SinkChallenger(i)
                       /\ row.responder = SinkResponder(i)
                       /\ row.challenge_content = <<Token("challenge", i, e.attempt)>>
                       /\ row.response_content = <<Token("respond", i, e.attempt)>>
                       /\ row.followup_content
                            = (IF config.enable_followup
                               THEN Some(<<Token("followup", i, e.attempt)>>)
                               ELSE None)

\* the exchange completed on its second attempt with follow-up enabled: the
\* insert asked for at agent_followup_end carries the second attempt's texts
C26_Witness ==
    /\ enabled
    /\ config.enable_followup
    /\ last_event.event = "agent_followup_end"
    /\ last_event.attempt = 2
    /\ Len(CallsOf("insert_debate")) = 1
    /\ CallsOf("insert_debate")[1].op.args.response_content
         = <<Token("respond", 1, 2)>>
    /\ exchange_parts = <<>>

\* C27 as stated: once stop() has closed the connection, every operation
\* queued before the call has been taken to the store and the consumer
\* thread has ended, and no operation reaches the store after the close,
\* whatever the queue held when stop() was called.
C27_AsStated ==
    /\ pg_closed => (q = <<>> /\ run_pc = "returned")
    /\ ~ last_write.after_close

\* _run has taken the head of the queue in this step
Takes == feed' = feed /\ stop_pc' = stop_pc /\ Len(q') < Len(q)

C28_Step ==
    /\ Len(q) <= QueueMaxsize
    /\ Len(q') <= QueueMaxsize
    /\ (stop_pc = "idle" /\ NextEvents(feed, config.enable_followup) # {}) =>
          ENABLED (\E next \in NextEvents(feed, config.enable_followup) :
                      on_event(next[1], next[2]))
    /\ (HandsEvent /\ enabled) =>
          LET made == enqueue_calls'
              taken == Min(Len(made), QueueMaxsize - Len(q))
          IN  /\ \A i \in 1..Len(made) : made[i].queued = (i <= taken)
              /\ Len(q') = Len(q) + taken
              /\ \A i \in 1..Len(q) : q'[i] = q[i]
              /\ \A i \in 1..taken : q'[Len(q) + i] = made[i].op
    /\ (Takes /\ Head(q).kind # "__stop__") =>
          /\ q' = Tail(q)
          /\ last_write'.written
          /\ run_pc' = "get"
          /\ q' # <<>> => ENABLED run

\* C28: handing an event to the sink is never blocked, whatever the queue
\* holds: each enqueue call returns at once, the operation entering the queue
\* when it holds fewer than its capacity of items and being dropped
\* otherwise, so the queue never exceeds its capacity; and a store write that
\* raises is swallowed by the consumer, which neither retries nor requeues
\* the operation and goes on with the queued operations that follow, in order.
C28_NeverBlocks == [][C28_Step]_vars

\* the latest store write failed, the consumer is still at its loop, and the
\* full queue has just dropped an operation of the latest event
C28_Witness ==
    /\ last_write.written
    /\ ~ last_write.ok
    /\ run_pc = "get"
    /\ Len(q) = QueueMaxsize
    /\ \E i \in 1..Len(enqueue_calls) : ~ enqueue_calls[i].queued


\* C29: for any counts of failed agents, degraded agents, guardrail
\* triggers, adaptive-degraded events and retries and any tool error rate
\* from 0 to 1, the stability score is
\* 100 - (30 failed + 12 degraded + 15 guardrail + 6 adaptive_degraded
\* + min(20, 2 retries) + min(25, 25 error rate)) brought into 0..100: it is
\* never below 0 or above 100, and it is 100 when all the inputs are zero.
C29_StabilityScore ==
    calc.fn = "build_demo_metrics" =>
        LET penalty == 3000 * calc.failed_agents + 1200 * calc.degraded_agents
                       + 1500 * calc.guardrail_trigger_count
                       + 600 * calc.adaptive_degraded_count
                       + (IF calc.retry_count >= 10 THEN 2000
                          ELSE 200 * calc.retry_count)
                       + 25 * calc.tool_error_rate
            score == calc.stability_score
        IN  /\ score >= 0
            /\ score <= 10000
            /\ score = (IF penalty >= 10000 THEN 0 ELSE 10000 - penalty)
            /\ penalty = 0 => score = 10000

\* penalties beyond 100 points (four failed agents, eleven retries, every
\* tool call failed) leave the score at 0
C29_Witness ==
    /\ calc.fn = "build_demo_metrics"
    /\ calc.failed_agents = 4
    /\ calc.retry_count = 11
    /\ calc.tool_error_rate = 100
    /\ calc.stability_score = 0


HttpPrefixes == {<<"h", "t", "t", "p", ":", "/", "/">>, <<"h", "t", "t", "p", "s", ":", "/", "/">>}

C35_NoWebsearchWhenDisabled ==
    (calc.fn = "llm_call" /\ ~ cfg.enable_websearch) => ~ calc.use_websearch

\* the retry of a worker whose own attribute is true, in a session with the
\* switch off
C35_Witness ==
    /\ calc.fn = "llm_call"
    /\ ~ cfg.enable_websearch
    /\ calc.site = "agent"
    /\ AgentUseWebsearch(calc.agent)
    /\ calc.attempt = 2
    /\ ~ calc.use_websearch


C36_Step ==
    /\ adaptive_inflight_calls' <= ADAPTIVE_DEFAULT_LIMIT
    /\ adaptive_inflight_calls' > adaptive_concurrency_limit' =>
          /\ adaptive_concurrency_limit' = ADAPTIVE_REDUCED_LIMIT
          /\ adaptive_inflight_calls' <= adaptive_inflight_calls

\* C36 (amended): the number of in-flight LLM calls never exceeds the default
\* width, so it is at most the current width whenever that is the default;
\* after the width was reduced the count may be above the reduced width, but
\* only by calls that were granted their slot before: while the count is above
\* the width no step makes it grow.
C36_InflightBound == [][C36_Step]_vars

\* four streams are running and the width has just been reduced to 2
C36_Witness ==
    /\ adaptive_concurrency_limit = ADAPTIVE_REDUCED_LIMIT
    /\ adaptive_inflight_calls = ADAPTIVE_DEFAULT_LIMIT
    /\ Cardinality({c \in DOMAIN callers : callers[c].pc = "held"}) = ADAPTIVE_DEFAULT_LIMIT

\* C36 as stated: in every reachable state the in-flight count is at most the
\* current width
C36_AsStated == adaptive_inflight_calls <= adaptive_concurrency_limit


\* thread c gives its slot back in this step
Released(c) == callers[c].pc = "held" /\ callers'[c].pc = "released"

C37_Step ==
    /\ \A c \in DOMAIN callers :
          /\ Released(c) => adaptive_inflight_calls' = adaptive_inflight_calls - 1
          /\ Granted(c) => adaptive_inflight_calls' = adaptive_inflight_calls + 1
          /\ (callers[c].pc = "held" /\ callers'[c] # callers[c]) => Released(c)
          /\ callers[c].pc = "released" => callers'[c].pc \in {"released", "idle"}
    /\ (\A c \in DOMAIN callers : ~ Released(c) /\ ~ Granted(c)) =>
          adaptive_inflight_calls' = adaptive_inflight_calls
    /\ adaptive_inflight_calls' >= 0
    /\ adaptive_inflight_calls' = Cardinality(Streaming)'

\* the throttle has no free slot
NoSlot == adaptive_inflight_calls >= adaptive_concurrency_limit

\* C37: every slot acquired is given back exactly once, when the stream
\* returns and when it raises: the step that ends a thread's stream lowers the
\* in-flight counter by one and no other step lowers it; the counter is never
\* negative, it is the number of running streams and so 0 when no call is
\* active; a thread that holds a slot does nothing but end its stream (it asks
\* for no second slot, and the outcome is recorded and the retry backoff slept
\* after the slot was given back); and if every LLM call terminates, a full
\* throttle always gets a free slot again, at width 4 and at width 2.
C37_SlotsReleased == [][C37_Step]_vars /\ (NoSlot ~> ~ NoSlot)

\* a stream that raised has given its slot back at the reduced width, and
\* no call is active any more
C37_Witness ==
    /\ adaptive_concurrency_limit = ADAPTIVE_REDUCED_LIMIT
    /\ adaptive_inflight_calls = 0
    /\ \E c \in DOMAIN callers : callers[c].pc = "released" /\ ~ callers[c].success
    /\ \A c \in DOMAIN callers : callers[c].pc # "held"


\* the events of kind `event` written for invocation id
ToolEventsOf(event, id) ==
    CopiesIn([event |-> event, invocation_id |-> id], tool_events)

\* the tool_end and tool_error events written for invocation id
FinishEventsOf(id) == ToolEventsOf("tool_end", id) + ToolEventsOf("tool_error", id)

\* C40 as stated: the active set holds exactly the ids begin_invocation
\* returned that were not ended yet; each such id has one tool_start and at most
\* one tool_end or tool_error; an end_invocation or error_invocation with an id
\* that is not active writes no event and changes no session's guardrail
\* counters (as it is, _pop_or_fallback makes up a state for such an id, the
\* event is written for it and the call is counted for the session "")
C40_AsStated ==
    /\ {r.invocation_id : r \in active} = {id \in 1..issued : FinishEventsOf(id) = 0}
    /\ \A id \in 0..MaxInvocations :
          /\ ToolEventsOf("tool_start", id) = (IF id \in 1..issued THEN 1 ELSE 0)
          /\ FinishEventsOf(id) <= ToolEventsOf("tool_start", id)
    /\ session_stats[FallbackSession] = NoStats


\* the arguments were handed to build_evidence_pack at least once
PackBuilt == calc.fn = "build_evidence_pack" /\ calc.packs # <<>>

\* "C001", "C002", ... and "S001", "S002", ...
NumberedIds(letter) ==
    <<<<letter, "0", "0", "1">>, <<letter, "0", "0", "2">>, <<letter, "0", "0", "3">>,
      <<letter, "0", "0", "4">>>>

\* the source strings of the agent results, row after row, as they are cited
CitedSources(rows) == Concat([i \in 1..Len(rows) |-> StrippedSources(rows[i].sources)])

\* the place of the first occurrence of value in items
FirstSeen(items, value) ==
    CHOOSE i \in 1..Len(items) :
        items[i] = value /\ \A j \in 1..(i - 1) : items[j] # value

C31_PackShape(rows, debates, pack) ==
    LET cited == CitedSources(rows)
    IN  /\ Len(pack.claims) = Len(rows)
        /\ \A i \in 1..Len(rows) : pack.claims[i].claim_id = NumberedIds("C")[i]
        /\ \A k \in 1..Len(pack.sources) : pack.sources[k].source_id = NumberedIds("S")[k]
        /\ {pack.sources[k].source : k \in 1..Len(pack.sources)}
              = {cited[i] : i \in 1..Len(cited)}
        /\ \A k, l \in 1..Len(pack.sources) :
              k < l => FirstSeen(cited, pack.sources[k].source)
                          < FirstSeen(cited, pack.sources[l].source)
        /\ \A i \in 1..Len(rows) :
              \A j \in 1..Len(pack.claims[i].source_refs) :
                 \E k \in 1..Len(pack.sources) :
                    pack.sources[k].source_id = pack.claims[i].source_refs[j]
        /\ pack.stats.claims_count = Len(pack.claims)
        /\ pack.stats.sources_count = Len(pack.sources)
        /\ pack.stats.debate_count = Len(pack.debate_adjustments)
        /\ Len(pack.debate_adjustments) = Len(debates)

WeightedTenths(text) ==
    13 * ascii_word_count(text) + 15 * cjk_char_count(text) + 3 * punct_char_count(text)

\* C32 as stated: estimate_tokens returns 0 only for a payload without
\* content and at least 1 for any payload that has content, for which it is the
\* rounding of 1.3 ascii_word_count + 1.5 CJK_char_count + 0.3 punctuation_count,
\* floored at 1 (as it is, a text whose sum is positive and rounds to 0, a
\* single punctuation mark, is given 0)
C32_AsStated ==
    (calc.fn = "estimate_tokens" /\ calc.returned) =>
        LET text == to_text(calc.payload)
        IN  /\ calc.tokens = 0 <=> text = <<>>
            /\ text # <<>> => calc.tokens = Max(1, round_tenths(WeightedTenths(text)))


\* C38, as stated: when the sink handles the agent_end of a worker that
\* completed on an attempt after the first, the content of the agent-result
\* upsert it enqueues holds only output streamed during that final attempt.
C38_AsStated ==
    (/\ last_event.event = "agent_end"
     /\ last_event.status = "completed"
     /\ last_event.attempt > 1) =>
        \A i \in DOMAIN enqueue_calls :
            LET op == enqueue_calls[i].op
            IN  (op.kind = "upsert_agent_result" /\ op.args.content # None) =>
                    \A j \in DOMAIN op.args.content[1] :
                        op.args.content[1][j].attempt = last_event.attempt


\* C39, as stated: in a session that completed, with an enabled sink and no
\* operation dropped by a full queue, the sink has asked for exactly one
\* debate-exchange insert for the record the exchange left in
\* debate_exchanges, with its round, challenger and responder.
C39_AsStated ==
    (/\ enabled
     /\ ~ overflowed
     /\ feed.stage \in {"ended", "closed_ended"}
     /\ feed.exchange_record # "none") =>
        CopiesIn([round_number |-> 1, challenger |-> SinkChallenger(1),
                  responder |-> SinkResponder(1)], inserted) = 1


\* the update of the session row the sink asks for on event e
TerminalFields(e) ==
    IF e.event = "error"
    THEN [status |-> "failed", phase |-> "error", error_message |-> e.content]
    ELSE [status |-> "completed", phase |-> "complete", synthesized_report |-> e.content,
          evidence_pack |-> TRUE, memory_snapshot |-> TRUE]

SessionUpdates == {i \in DOMAIN enqueue_calls : enqueue_calls[i].op.kind = "update_session"}

\* every operation but the sentinel has left the queue
Drained == \A i \in DOMAIN q : q[i].kind = "__stop__"

C33_Handled ==
    (last_event.event \in {"error", "orchestrator_end"} /\ enqueue_calls # <<>>) =>
        /\ Cardinality(SessionUpdates) = 1
        /\ \A i \in SessionUpdates : enqueue_calls[i].op.args = TerminalFields(last_event)

C33_RowCoherent ==
    /\ session_row.status = "failed" <=> session_row.phase = "error"
    /\ session_row.status = "completed" <=> session_row.phase = "complete"
    /\ session_row.status = "completed" =>
          {"synthesized_report", "evidence_pack", "memory_snapshot"} \subseteq DOMAIN session_row
    /\ session_row.status = "failed" => feed.stage \in {"failed", "closed_failed"}
    /\ session_row.status = "completed" => feed.stage \in {"ended", "closed_ended"}

C33_Persisted ==
    (/\ last_event.event \in {"error", "orchestrator_end"}
     /\ enqueue_calls # <<>>
     /\ enqueue_calls[Len(enqueue_calls)].queued
     /\ Drained
     /\ last_write.written /\ last_write.ok) =>
        /\ session_row.status = TerminalFields(last_event).status
        /\ session_row.phase = TerminalFields(last_event).phase

C33_Step ==
    session_row.status \in {"failed", "completed"} => session_row' = session_row

\* C33: on an error event the sink asks for one update of the session row,
\* to status failed and phase error, and on orchestrator_end for one update
\* that sets status completed and phase complete together with the report,
\* the evidence pack and the memory snapshot; when the queue took that update
\* and the store has written it, the row holds that status and phase; the
\* row is never completed without those three columns; and once the row
\* holds failed or completed nothing of the stream changes it any more.
C33_TerminalUpdate ==
    /\ [](C33_Handled /\ C33_RowCoherent /\ C33_Persisted)
    /\ [][C33_Step]_vars

\* a completed session whose row the worker has written, the sink closed
C33_Witness ==
    /\ feed.stage = "closed_ended"
    /\ stop_pc = "done"
    /\ session_row.status = "completed"
    /\ session_row.synthesized_report = Some(<<Token("report", 0, 0)>>)

\* C33, as stated: once a stream that ended with an error event or with
\* orchestrator_end is over and the sink's queue has been worked off, the
\* persisted session has status failed and phase error, respectively status
\* completed and phase complete.
C33_AsStated ==
    (/\ enabled
     /\ feed.stage \in {"closed_failed", "closed_ended"}
     /\ stop_pc = "done"
     /\ q = <<>>) =>
        /\ session_row.status = IF feed.stage = "closed_failed" THEN "failed" ELSE "completed"
        /\ session_row.phase = IF feed.stage = "closed_failed" THEN "error" ELSE "complete"


\* the generator has left its loop and close() has returned
CloseReturned == feed.stage \in ClosedStages /\ stop_pc \in {"idle", "done"}

C34_Step ==
    /\ feed.stage = "disconnected" =>
          /\ last_event' = last_event
          /\ enqueue_calls' = enqueue_calls
          /\ feed' = feed \/ feed' = [feed EXCEPT !.stage = "closed_disconnected"]
    /\ (feed.stage \notin ClosedStages /\ feed'.stage \in ClosedStages) =>
          /\ feed.stage \in ExitStages
          /\ stop_pc = "idle"
          /\ worker => stop_pc' = "join"
    /\ feed.stage \in ClosedStages => feed' = feed
    /\ stop_pc = "done" => stop_pc' = "done"
    /\ (CloseReturned /\ last_event' # last_event) =>
          /\ enqueue_calls' = <<>>
          /\ q' = q

\* C34: once a disconnect has been observed the generator pulls no event
\* from the engine and hands none to the sink; after the loop has been left
\* by the end of the stream, by an error or by a disconnect, close() is
\* called, and it is called once; and for an event it is given after close()
\* has returned the sink calls enqueue for nothing and its queue is unchanged.
C34_ClosedOnce ==
    /\ [][C34_Step]_vars
    /\ [](CloseReturned => ~ worker)
    /\ \A stage \in ExitStages : (feed.stage = stage) ~> (feed.stage = Closed(stage) /\ CloseReturned)

\* after a disconnect the sink is closed and is handed an event it ignores
C34_Witness ==
    /\ enabled
    /\ feed.stage = "closed_disconnected"
    /\ stop_pc = "done"
    /\ last_event = ErrorEvent
    /\ enqueue_calls = <<>>

====
